---- MODULE Spec2Model ----
(***************************************************************************)
(* Google Drive & Gmail MCP server (emit-ia/gdrive-mcp).                   *)
(*                                                                         *)
(* The model follows src/unnamed/part_006 (the server entry point: the     *)
(* GoogleDriveMCPServer class, the call-tool handler, the SIGINT handler), *)
(* src/src/config.ts (validateCredentials), src/src/google-drive.ts and    *)
(* src/src/gmail.ts (the two facades and the OAuth token maintenance).     *)
(*                                                                         *)
(* Two specifications share the state and the operations:                  *)
(*   Spec         the server process, from `new GoogleDriveMCPServer()`    *)
(*                to process.exit;                                         *)
(*   SpecService  the GmailService class driven through its public methods *)
(*                by an embedding caller (this is where destroy() is       *)
(*                called: the entry point never calls it).                 *)
(*                                                                         *)
(* The state starts after src/src/config.ts has been evaluated, that is    *)
(* with the exported `config` object in hand.                              *)
(***************************************************************************)
EXTENDS Integers, Sequences, FiniteSets, TLC

VARIABLES
    config,               \* the exported `config` object (config.ts:95), credential fields
    pc,                   \* position of the process / of the embedding caller
    exitCode,             \* process exit code, NoExit while the process lives
    fatal,                \* the exception that ended startup: its message, who threw it
    driveService,         \* the GoogleDriveService object
    gmailService,         \* the GmailService object
    lastTokenRefresh,     \* GmailService.lastTokenRefresh (ms since the process started)
    tokenRefreshInterval, \* GmailService.tokenRefreshInterval: Null or a timer handle
    timers,               \* the event loop's active intervals: handle -> next due time
    exchanges,            \* auth.getAccessToken() calls awaiting their answer
    exchanged,            \* the exchange the last step saw answered, and the answer
    now,                  \* Date.now() (ms since the process started)
    stderr,               \* the lines the last step wrote to process.stderr
    received,             \* number of tool calls received so far (the last one's id)
    pending,              \* the tool calls whose facade method has not settled: id, name
    answers,              \* per tool call id: the isError flag of each result returned for it
    called,               \* the tool call the last step received, NoCall if none
    invoked,              \* the facade method the last step called for it, NoMethod if none
    settled,              \* what the case of the switch settled to in the last step
    stdout,               \* the handler results the last step returned
    returned,             \* what the last direct call of a facade method returned
    remoteDrive           \* the parents the Drive keeps for a file, and the moveFile calls in progress

procVars == <<pc, exitCode, fatal>>
facadeVars == <<driveService, gmailService>>
tokenVars == <<lastTokenRefresh, tokenRefreshInterval, timers, exchanges>>
routerVars == <<received, pending, answers, called, invoked, settled, stdout>>
vars == <<config, procVars, facadeVars, tokenVars, exchanged, now, stderr, routerVars, returned,
          remoteDrive>>

----------------------------------------------------------------------------
(* Bounds of the model.                                                    *)

\* number of tool calls the client sends
MaxRequests == 2
\* number of periodic maintenance ticks that fire
MaxTicks == 2
\* number of DriftStep-advances of the clock after each tick time
MaxDrift == 2
\* token exchanges that may be awaiting their answer at once
MaxInFlight == 2

----------------------------------------------------------------------------
(* Program constants.                                                      *)

\* setInterval(..., 30 * 60 * 1000)
TickPeriod == 1800000
\* (Date.now() - last) / (1000 * 60)
MsPerMinute == 60000
\* granularity of the modelled clock: a third of a minute, in ms
DriftStep == MsPerMinute \div 3

Null == "null"
Undefined == "undefined"
NoExit == 0 - 1

----------------------------------------------------------------------------
(* config.ts: the credential fields of `config`.  A field is a string or   *)
(* undefined; the code only ever tests its truthiness.                     *)

CredVals == {Undefined, "", "value"}

CredFields == {"googleClientId", "googleClientSecret", "googleRefreshToken",
               "googleServiceAccountEmail", "googlePrivateKey"}

Configs == [CredFields -> CredVals]

\* JavaScript truthiness of a `string | undefined`
Truthy(v) == v # Undefined /\ v # ""

BoolStr(b) == IF b THEN "true" ELSE "false"

----------------------------------------------------------------------------
(* logger.ts: every level goes through Logger.write, which writes one line *)
(* to process.stderr.  A line is kept as <<level, message>>.               *)

LogLine(level, message) == <<level, message>>

\* a Logger.write that prints the INFO and CONFIG levels as console.log does
LoggerStreamConsole(level) == IF level \in {"INFO", "CONFIG"} THEN "stdout" ELSE "stderr"

\* the stream Logger.write writes a line of a level to: process.stderr, whatever the level
LoggerStream(level) == "stderr"

MsgMissingCredentials == "Missing Google API credentials. For full functionality, please set: ..."
MsgNoOAuth == "No OAuth credentials found. Gmail functionality will be disabled. ..."
MsgNoServiceAccount == "No Service Account credentials found. Google Drive functionality will be disabled. ..."
MsgNoRefreshConfig == "OAuth credentials found but no refresh token provided. ..."
MsgDriveRequires == "Google Drive requires Service Account authentication. Please set: ..."
MsgGmailRequires == "Gmail requires OAuth2 authentication. Please set: ..."
MsgNoRefreshGmail == "No refresh token provided for Gmail. You may need to re-authenticate periodically."
MsgMaintenanceDisabled == "No refresh token available - token maintenance disabled"
MsgMaintenanceOk == "Token refreshed successfully during maintenance"
MsgMaintenanceFailed == "Token maintenance failed:"
MsgInitialFailed == "Initial token validation failed:"
MsgNoRefreshForValidation == "No refresh token available for validation"
MsgValidated == "Token validated and refreshed at"
MsgNoAccessToken == "Failed to obtain access token"
MsgValidationFailed == "Token validation failed:"
MsgManualOk == "Token refreshed successfully"
MsgMaintenanceStopped == "Token maintenance stopped"
MsgServerRunning == "Google Drive MCP server running on stdio"

----------------------------------------------------------------------------
(* config.ts: validateCredentials.                                         *)

HasOAuth(c) == Truthy(c.googleClientId) /\ Truthy(c.googleClientSecret)

HasServiceAccount(c) == Truthy(c.googleServiceAccountEmail) /\ Truthy(c.googlePrivateKey)

ValidateHeader(c) ==
    << LogLine("CONFIG", "Validating credentials..."),
       LogLine("CONFIG", "Client ID present: " \o BoolStr(Truthy(c.googleClientId))),
       LogLine("CONFIG", "Client Secret present: " \o BoolStr(Truthy(c.googleClientSecret))),
       LogLine("CONFIG", "Refresh Token present: " \o BoolStr(Truthy(c.googleRefreshToken))),
       LogLine("CONFIG", "Service Account Email present: " \o BoolStr(Truthy(c.googleServiceAccountEmail))),
       LogLine("CONFIG", "Private Key present: " \o BoolStr(Truthy(c.googlePrivateKey))) >>

\* A validateCredentials that never throws.
validateCredentialsLax(c) ==
    [threw |-> FALSE, error |-> "",
     lines |-> ValidateHeader(c)
               \o (IF ~HasOAuth(c) THEN <<LogLine("WARN", MsgNoOAuth)>> ELSE <<>>)
               \o (IF ~HasServiceAccount(c) THEN <<LogLine("WARN", MsgNoServiceAccount)>> ELSE <<>>)]

\* The outcome of validateCredentials(): whether it threw, the message, the lines logged.
validateCredentials(c) ==
    IF ~HasOAuth(c) /\ ~HasServiceAccount(c)
    THEN [threw |-> TRUE, error |-> MsgMissingCredentials, lines |-> ValidateHeader(c)]
    ELSE [threw |-> FALSE, error |-> "",
          lines |-> ValidateHeader(c)
                    \o (IF ~HasOAuth(c) THEN <<LogLine("WARN", MsgNoOAuth)>> ELSE <<>>)
                    \o (IF ~HasServiceAccount(c) THEN <<LogLine("WARN", MsgNoServiceAccount)>> ELSE <<>>)
                    \o (IF HasOAuth(c) /\ ~Truthy(c.googleRefreshToken)
                        THEN <<LogLine("WARN", MsgNoRefreshConfig)>> ELSE <<>>)]

----------------------------------------------------------------------------
(* Values thrown or rejected.  `error instanceof Error ? error.message :   *)
(* String(error)` is what every catch of the program applies to them.      *)

ErrorOf(message) == [type |-> "Error", message |-> message]

\* the values a remote call (the authorization server, the Drive or Gmail API) rejects with
RemoteErrors == { ErrorOf("invalid_grant"), [type |-> "string", message |-> "socket hang up"] }

\* error instanceof Error ? error.message : String(error)
ErrorText(e) ==
    CASE e.type = "Error" -> e.message
      [] e.type = "string" -> e.message
      [] OTHER -> "[object Object]"

----------------------------------------------------------------------------
(* Date.prototype.toISOString, for the times of the model: the process is  *)
(* taken to start at 2024-01-01T00:00:00.000Z and runs less than a day.    *)

Pad2(n) == IF n < 10 THEN "0" \o ToString(n) ELSE ToString(n)

Pad3(n) == IF n < 10 THEN "00" \o ToString(n)
           ELSE IF n < 100 THEN "0" \o ToString(n) ELSE ToString(n)

toISOString(t) ==
    "2024-01-01T" \o Pad2(t \div 3600000) \o ":" \o Pad2((t \div 60000) % 60) \o ":"
        \o Pad2((t \div 1000) % 60) \o "." \o Pad3(t % 1000) \o "Z"

----------------------------------------------------------------------------
(* google-drive.ts: new GoogleDriveService().                              *)

DriveObject(state, built) == [state |-> state, auth |-> built, drive |-> built]

\* initializeAuth of GoogleDriveService: throws unless both service-account fields are set
DriveInitializeAuth(c) ==
    IF ~Truthy(c.googleServiceAccountEmail) \/ ~Truthy(c.googlePrivateKey)
    THEN [threw |-> TRUE, error |-> MsgDriveRequires]
    ELSE [threw |-> FALSE, error |-> ""]

\* The constructor: validateCredentials(), initializeAuth(), then the Drive API client.
GoogleDriveService(c) ==
    LET v == validateCredentials(c)
        a == DriveInitializeAuth(c)
    IN  IF v.threw
        THEN [threw |-> TRUE, error |-> v.error, by |-> "validateCredentials",
              lines |-> v.lines, obj |-> DriveObject("threw", FALSE)]
        ELSE IF a.threw
        THEN [threw |-> TRUE, error |-> a.error, by |-> "GoogleDriveService.initializeAuth",
              lines |-> v.lines, obj |-> DriveObject("threw", FALSE)]
        ELSE [threw |-> FALSE, error |-> "", by |-> "",
              lines |-> v.lines, obj |-> DriveObject("built", TRUE)]

----------------------------------------------------------------------------
(* gmail.ts: new GmailService().                                           *)

GmailObject(state, auth, client) == [state |-> state, auth |-> auth, gmail |-> client]

IntervalHandle == "interval#1"

\* An initializeAuth that accepts a lone client id.
GmailInitializeAuthIdOnly(c) ==
    IF ~Truthy(c.googleClientId)
    THEN [threw |-> TRUE, error |-> MsgGmailRequires, lines |-> <<>>]
    ELSE [threw |-> FALSE, error |-> "", lines |-> <<>>]

\* initializeAuth of GmailService: throws unless client id and secret are set; warns
\* when there is no refresh token
GmailInitializeAuth(c) ==
    IF ~Truthy(c.googleClientId) \/ ~Truthy(c.googleClientSecret)
    THEN [threw |-> TRUE, error |-> MsgGmailRequires, lines |-> <<>>]
    ELSE [threw |-> FALSE, error |-> "",
          lines |-> IF Truthy(c.googleRefreshToken) THEN <<>>
                    ELSE <<LogLine("WARN", MsgNoRefreshGmail)>>]

\* A setupTokenMaintenance that starts the timer whatever the configuration.
setupTokenMaintenanceAlways(c, t) ==
    [interval |-> IntervalHandle, due |-> t + TickPeriod,
     initial |-> Truthy(c.googleRefreshToken), lines |-> <<>>]

\* setupTokenMaintenance at time t: the interval handle stored, the time the interval
\* is first due, whether the initial validateAndRefreshToken() reaches the exchange
setupTokenMaintenance(c, t) ==
    IF ~Truthy(c.googleRefreshToken)
    THEN [interval |-> Null, due |-> 0, initial |-> FALSE,
          lines |-> <<LogLine("GMAIL", MsgMaintenanceDisabled)>>]
    ELSE [interval |-> IntervalHandle, due |-> t + TickPeriod, initial |-> TRUE,
          lines |-> <<>>]

\* The constructor: initializeAuth(), the Gmail API client, setupTokenMaintenance().
GmailService(c, t) ==
    LET a == GmailInitializeAuth(c)
        m == setupTokenMaintenance(c, t)
    IN  IF a.threw
        THEN [threw |-> TRUE, error |-> a.error, by |-> "GmailService.initializeAuth",
              lines |-> a.lines, obj |-> GmailObject("threw", FALSE, FALSE),
              interval |-> Null, due |-> 0, initial |-> FALSE]
        ELSE [threw |-> FALSE, error |-> "", by |-> "",
              lines |-> a.lines \o m.lines, obj |-> GmailObject("built", TRUE, TRUE),
              interval |-> m.interval, due |-> m.due, initial |-> m.initial]

----------------------------------------------------------------------------
(* gmail.ts: validateAndRefreshToken, in its two halves: up to the await   *)
(* of auth.getAccessToken(), and from its answer on.                       *)

\* what auth.getAccessToken() can answer
ExchangeOutcomes ==
    { [kind |-> "token"], [kind |-> "empty"] }
        \cup { [kind |-> "reject", error |-> e] : e \in RemoteErrors }

\* A first half that goes to the exchange without looking at the configuration.
validateAndRefreshTokenBeginUnchecked(c) ==
    [threw |-> FALSE, error |-> ErrorOf("")]

\* first half: throws before any exchange when no refresh token is configured
validateAndRefreshTokenBegin(c) ==
    IF ~Truthy(c.googleRefreshToken)
    THEN [threw |-> TRUE, error |-> ErrorOf(MsgNoRefreshForValidation)]
    ELSE [threw |-> FALSE, error |-> ErrorOf("")]

\* A second half that records the time of every answer, failed or not.
validateAndRefreshTokenStamp(o, t, last) ==
    IF o.kind = "token"
    THEN [threw |-> FALSE, error |-> ErrorOf(""), last |-> t,
          lines |-> <<LogLine("GMAIL", MsgValidated \o " " \o toISOString(t))>>]
    ELSE LET e == IF o.kind = "empty" THEN ErrorOf(MsgNoAccessToken) ELSE o.error
         IN  [threw |-> TRUE, error |-> e, last |-> t,
              lines |-> <<LogLine("ERROR", MsgValidationFailed \o " " \o ErrorText(e))>>]

\* second half, on answer o at time t with lastTokenRefresh = last
validateAndRefreshTokenEnd(o, t, last) ==
    IF o.kind = "token"
    THEN [threw |-> FALSE, error |-> ErrorOf(""), last |-> t,
          lines |-> <<LogLine("GMAIL", MsgValidated \o " " \o toISOString(t))>>]
    ELSE LET e == IF o.kind = "empty" THEN ErrorOf(MsgNoAccessToken) ELSE o.error
         IN  [threw |-> TRUE, error |-> e, last |-> last,
              lines |-> <<LogLine("ERROR", MsgValidationFailed \o " " \o ErrorText(e))>>]

\* A refreshToken() that lets the failure through to its caller.
refreshTokenResultRethrow(v) ==
    IF v.threw
    THEN [threw |-> TRUE, error |-> v.error]
    ELSE [threw |-> FALSE,
          value |-> [success |-> TRUE, lastRefresh |-> v.last, message |-> MsgManualOk]]

\* refreshToken(): what it resolves to, given what validateAndRefreshToken did
\* (v.last is this.lastTokenRefresh when the try or the catch returns)
refreshTokenResult(v) ==
    IF v.threw
    THEN [threw |-> FALSE,
          value |-> [success |-> FALSE, lastRefresh |-> v.last, message |-> ErrorText(v.error)]]
    ELSE [threw |-> FALSE,
          value |-> [success |-> TRUE, lastRefresh |-> v.last, message |-> MsgManualOk]]

\* An interval callback without its try/catch.
MaintenanceCallbackBare(v) ==
    IF v.threw
    THEN [threw |-> TRUE, lines |-> <<>>]
    ELSE [threw |-> FALSE, lines |-> <<LogLine("GMAIL", MsgMaintenanceOk)>>]

\* the interval callback's try/catch around validateAndRefreshToken(): whether the
\* callback's promise rejects, and the lines it logs
MaintenanceCallback(v) ==
    IF v.threw
    THEN [threw |-> FALSE,
          lines |-> <<LogLine("ERROR", MsgMaintenanceFailed \o " " \o ErrorText(v.error))>>]
    ELSE [threw |-> FALSE, lines |-> <<LogLine("GMAIL", MsgMaintenanceOk)>>]

\* An initial validateAndRefreshToken() without its .catch.
InitialCatchBare(v) == [threw |-> v.threw, lines |-> <<>>]

\* the .catch of the initial validateAndRefreshToken()
InitialCatch(v) ==
    IF v.threw
    THEN [threw |-> FALSE,
          lines |-> <<LogLine("ERROR", MsgInitialFailed \o " " \o ErrorText(v.error))>>]
    ELSE [threw |-> FALSE, lines |-> <<>>]

\* Math.round(x / MsPerMinute) for x >= 0
RoundMinutes(x) == (2 * x + MsPerMinute) \div (2 * MsPerMinute)

\* A getTokenStatus that subtracts the wrong way round.
getTokenStatusReversed(c, t, last, interval) ==
    [hasRefreshToken |-> Truthy(c.googleRefreshToken),
     lastRefresh |-> last,
     minutesSinceRefresh |-> 0 - RoundMinutes(t - last),
     maintenanceActive |-> interval # Null]

\* A getTokenStatus() that reports the time of the query as the last refresh.
getTokenStatusNow(c, t, last, interval) ==
    [hasRefreshToken |-> Truthy(c.googleRefreshToken),
     lastRefresh |-> t,
     minutesSinceRefresh |-> RoundMinutes(t - last),
     maintenanceActive |-> interval # Null]

\* A getTokenStatus() that takes the maintenance to be active whenever a refresh
\* token is configured.
getTokenStatusByConfig(c, t, last, interval) ==
    [hasRefreshToken |-> Truthy(c.googleRefreshToken),
     lastRefresh |-> last,
     minutesSinceRefresh |-> RoundMinutes(t - last),
     maintenanceActive |-> Truthy(c.googleRefreshToken)]

\* getTokenStatus()
getTokenStatus(c, t, last, interval) ==
    [hasRefreshToken |-> Truthy(c.googleRefreshToken),
     lastRefresh |-> last,
     minutesSinceRefresh |-> RoundMinutes(t - last),
     maintenanceActive |-> interval # Null]

\* A destroy() that forgets to reset the field.
destroyKeepHandle(interval) ==
    IF interval # Null
    THEN [interval |-> interval, cleared |-> {interval},
          lines |-> <<LogLine("GMAIL", MsgMaintenanceStopped)>>]
    ELSE [interval |-> interval, cleared |-> {}, lines |-> <<>>]

\* A destroy() that resets the field without clearInterval.
destroyKeepTimer(interval) ==
    IF interval # Null
    THEN [interval |-> Null, cleared |-> {},
          lines |-> <<LogLine("GMAIL", MsgMaintenanceStopped)>>]
    ELSE [interval |-> Null, cleared |-> {}, lines |-> <<>>]

\* destroy(): the new value of the field, the handles given to clearInterval, the lines
destroy(interval) ==
    IF interval # Null
    THEN [interval |-> Null, cleared |-> {interval},
          lines |-> <<LogLine("GMAIL", MsgMaintenanceStopped)>>]
    ELSE [interval |-> Null, cleared |-> {}, lines |-> <<>>]

----------------------------------------------------------------------------
(* JSON.stringify(value, null, 2) for the values the handler serialises:   *)
(* flat objects, kept as sequences of <<key, value>> with tagged values.   *)

JStr(v) == [t |-> "string", s |-> v]
JBool(v) == [t |-> "boolean", s |-> BoolStr(v)]
JNum(v) == [t |-> "number", s |-> ToString(v)]
\* a Date serialises through toJSON, that is toISOString
JDate(v) == [t |-> "string", s |-> toISOString(v)]

JsonValue(v) == IF v.t = "string" THEN "\"" \o v.s \o "\"" ELSE v.s

RECURSIVE JsonFields(_)
JsonFields(obj) ==
    IF Len(obj) = 0 THEN ""
    ELSE "  \"" \o obj[1][1] \o "\": " \o JsonValue(obj[1][2])
         \o (IF Len(obj) = 1 THEN "" ELSE ",\n" \o JsonFields(Tail(obj)))

Stringify(obj) == IF Len(obj) = 0 THEN "{}" ELSE "{\n" \o JsonFields(obj) \o "\n}"

\* JSON.stringify(arg) as Logger.write applies it to an object argument: an Error has
\* no enumerable property
LogArg(e) == IF e.type = "string" THEN e.message ELSE "{}"

----------------------------------------------------------------------------
(* part_006: the tools and the switch of the call-tool handler.            *)

DriveTools ==
    {"gdrive_list_files", "gdrive_get_file", "gdrive_download_file", "gdrive_upload_file",
     "gdrive_update_file", "gdrive_delete_file", "gdrive_copy_file", "gdrive_move_file",
     "gdrive_create_folder", "gdrive_get_folder_info", "gdrive_share_file",
     "gdrive_get_permissions", "gdrive_remove_permission", "gdrive_search",
     "gdrive_get_recent_files", "gdrive_get_comments", "gdrive_add_comment",
     "gdrive_get_revisions", "gdrive_get_about", "gdrive_empty_trash"}

GmailTools ==
    {"gmail_list_messages", "gmail_get_message", "gmail_send_message", "gmail_mark_as_read",
     "gmail_mark_as_unread", "gmail_search_messages", "gmail_get_profile",
     "gmail_check_token_status", "gmail_refresh_token"}

Tools == DriveTools \cup GmailTools

\* a name a client may send that no case of the switch matches
UnknownNames == {"gdrive_rename_file"}

\* the names the modelled client sends: one tool for each shape of case (a Drive
\* method given `args || {}`, a Drive method that destructures `args`, a Gmail method
\* whose arguments the handler reads, the two token tools) and the unknown name
SentNames ==
    {"gdrive_list_files", "gdrive_delete_file", "gmail_send_message",
     "gmail_check_token_status", "gmail_refresh_token"} \cup UnknownNames

NoMethod == "none"

\* the cases of the switch: the facade and the method called for a tool name
Case(name) ==
    CASE name = "gdrive_list_files" -> [service |-> "drive", method |-> "listFiles"]
      [] name = "gdrive_get_file" -> [service |-> "drive", method |-> "getFile"]
      [] name = "gdrive_download_file" -> [service |-> "drive", method |-> "downloadFile"]
      [] name = "gdrive_upload_file" -> [service |-> "drive", method |-> "uploadFile"]
      [] name = "gdrive_update_file" -> [service |-> "drive", method |-> "updateFile"]
      [] name = "gdrive_delete_file" -> [service |-> "drive", method |-> "deleteFile"]
      [] name = "gdrive_copy_file" -> [service |-> "drive", method |-> "copyFile"]
      [] name = "gdrive_move_file" -> [service |-> "drive", method |-> "moveFile"]
      [] name = "gdrive_create_folder" -> [service |-> "drive", method |-> "createFolder"]
      [] name = "gdrive_get_folder_info" -> [service |-> "drive", method |-> "getFolderInfo"]
      [] name = "gdrive_share_file" -> [service |-> "drive", method |-> "shareFile"]
      [] name = "gdrive_get_permissions" -> [service |-> "drive", method |-> "getPermissions"]
      [] name = "gdrive_remove_permission" -> [service |-> "drive", method |-> "removePermission"]
      [] name = "gdrive_search" -> [service |-> "drive", method |-> "search"]
      [] name = "gdrive_get_recent_files" -> [service |-> "drive", method |-> "getRecentFiles"]
      [] name = "gdrive_get_comments" -> [service |-> "drive", method |-> "getComments"]
      [] name = "gdrive_add_comment" -> [service |-> "drive", method |-> "addComment"]
      [] name = "gdrive_get_revisions" -> [service |-> "drive", method |-> "getRevisions"]
      [] name = "gdrive_get_about" -> [service |-> "drive", method |-> "getAbout"]
      [] name = "gdrive_empty_trash" -> [service |-> "drive", method |-> "emptyTrash"]
      [] name = "gmail_list_messages" -> [service |-> "gmail", method |-> "listMessages"]
      [] name = "gmail_get_message" -> [service |-> "gmail", method |-> "getMessage"]
      [] name = "gmail_send_message" -> [service |-> "gmail", method |-> "sendMessage"]
      [] name = "gmail_mark_as_read" -> [service |-> "gmail", method |-> "markAsRead"]
      [] name = "gmail_mark_as_unread" -> [service |-> "gmail", method |-> "markAsUnread"]
      [] name = "gmail_search_messages" -> [service |-> "gmail", method |-> "searchMessages"]
      [] name = "gmail_get_profile" -> [service |-> "gmail", method |-> "getProfile"]
      [] name = "gmail_check_token_status" -> [service |-> "gmail", method |-> "getTokenStatus"]
      [] OTHER -> [service |-> "gmail", method |-> "refreshToken"]

\* A switch whose default case falls into the first case.
DispatchFallThrough(name) ==
    IF name \in Tools THEN Case(name) ELSE Case("gdrive_list_files")

\* A switch whose token status case calls refreshToken().
DispatchStatusRefreshes(name) ==
    IF name = "gmail_check_token_status" THEN Case("gmail_refresh_token")
    ELSE IF name \in Tools THEN Case(name)
    ELSE [service |-> "none", method |-> NoMethod]

\* the switch: a registered name takes its case, any other name the default case
Dispatch(name) ==
    IF name \in Tools THEN Case(name) ELSE [service |-> "none", method |-> NoMethod]

\* the default case
UnknownToolError(name) == ErrorOf("Unknown tool: " \o name)

\* tools whose case reads a property of `args` in the handler itself: with no
\* arguments the read throws before the facade method is called
ArgsReadInHandler ==
    {"gmail_get_message", "gmail_send_message", "gmail_mark_as_read",
     "gmail_mark_as_unread", "gmail_search_messages"}

\* tools whose facade method destructures `args` before its try block: with no
\* arguments the method is called and rejects with the TypeError as it is
ArgsReadInMethod ==
    DriveTools \ {"gdrive_list_files", "gdrive_search", "gdrive_get_recent_files",
                  "gdrive_get_about", "gdrive_empty_trash"}

TypeErrorNoArgs == ErrorOf("Cannot read properties of undefined")

----------------------------------------------------------------------------
(* The facades' pass-through methods: what the method's promise settles to *)
(* once its remote call has settled.                                       *)

\* what a remote API call can settle to: the response data or a rejection
RemoteData == << <<"id", JStr("1a2b")>>, <<"kind", JStr("resource")>> >>

RemoteOutcomes ==
    { [kind |-> "data"] } \cup { [kind |-> "reject", error |-> e] : e \in RemoteErrors }

\* the message prefix of each GoogleDriveService method's catch
DriveFailure(method) ==
    CASE method = "listFiles" -> "Failed to list files"
      [] method = "getFile" -> "Failed to get file"
      [] method = "downloadFile" -> "Failed to download file"
      [] method = "uploadFile" -> "Failed to upload file"
      [] method = "updateFile" -> "Failed to update file"
      [] method = "deleteFile" -> "Failed to delete file"
      [] method = "copyFile" -> "Failed to copy file"
      [] method = "moveFile" -> "Failed to move file"
      [] method = "createFolder" -> "Failed to create folder"
      [] method = "getFolderInfo" -> "Failed to get folder info"
      [] method = "shareFile" -> "Failed to share file"
      [] method = "getPermissions" -> "Failed to get permissions"
      [] method = "removePermission" -> "Failed to remove permission"
      [] method = "search" -> "Failed to search files"
      [] method = "getRecentFiles" -> "Failed to search files"
      [] method = "getComments" -> "Failed to get comments"
      [] method = "addComment" -> "Failed to add comment"
      [] method = "getRevisions" -> "Failed to get revisions"
      [] method = "getAbout" -> "Failed to get account info"
      [] OTHER -> "Failed to empty trash"

\* the first argument of Logger.error in each GmailService method's catch
GmailFailure(method) ==
    CASE method = "listMessages" -> "Error listing messages:"
      [] method = "getMessage" -> "Error getting message:"
      [] method = "sendMessage" -> "Error sending message:"
      [] method = "markAsRead" -> "Error marking message as read:"
      [] method = "markAsUnread" -> "Error marking message as unread:"
      [] method = "searchMessages" -> "Error searching messages:"
      [] OTHER -> "Error getting profile:"

\* the value a pass-through method returns on success (arguments beyond their
\* presence are not part of this model: deleteFile is the call without `permanent`)
FacadeValue(method) ==
    CASE method = "deleteFile" ->
             << <<"success", JBool(TRUE)>>, <<"message", JStr("File moved to trash")>> >>
      [] method = "removePermission" ->
             << <<"success", JBool(TRUE)>>, <<"message", JStr("Permission removed")>> >>
      [] method = "emptyTrash" ->
             << <<"success", JBool(TRUE)>>, <<"message", JStr("Trash emptied successfully")>> >>
      [] OTHER -> RemoteData

\* the settled promise of a pass-through method: GoogleDriveService wraps the
\* rejection in a new Error, GmailService logs it and throws it on as it is
FacadeSettled(d, o) ==
    IF o.kind = "data"
    THEN [threw |-> FALSE, value |-> FacadeValue(d.method), error |-> ErrorOf(""), lines |-> <<>>]
    ELSE IF d.service = "drive"
    THEN [threw |-> TRUE, value |-> <<>>,
          error |-> ErrorOf(DriveFailure(d.method) \o ": " \o ErrorText(o.error)),
          lines |-> <<>>]
    ELSE [threw |-> TRUE, value |-> <<>>, error |-> o.error,
          lines |-> <<LogLine("ERROR", GmailFailure(d.method) \o " " \o LogArg(o.error))>>]

----------------------------------------------------------------------------
(* part_006: the envelope the call-tool handler returns.                   *)

TextContent(text) == <<[type |-> "text", text |-> text]>>

\* the return of the try block (isError FALSE stands for: no isError property)
SuccessResult(value) == [content |-> TextContent(Stringify(value)), isError |-> FALSE]

\* the return of the catch block
ErrorResult(e) == [content |-> TextContent("Error: " \o ErrorText(e)), isError |-> TRUE]

\* A handler without its catch: the failure leaves the handler.
CallToolHandlerNoCatch(id, s) ==
    IF s.threw
    THEN [id |-> id, threw |-> TRUE, result |-> [content |-> <<>>, isError |-> FALSE]]
    ELSE [id |-> id, threw |-> FALSE, result |-> SuccessResult(s.value)]

\* the handler's try/catch around the switch: s is what the case of the switch
\* settled to (a value, or something thrown); threw says whether the handler's
\* own promise rejects
CallToolHandler(id, s) ==
    IF s.threw
    THEN [id |-> id, threw |-> FALSE, result |-> ErrorResult(s.error)]
    ELSE [id |-> id, threw |-> FALSE, result |-> SuccessResult(s.value)]

Returns(value) == [threw |-> FALSE, value |-> value, error |-> ErrorOf("")]
Throws(e) == [threw |-> TRUE, value |-> <<>>, error |-> e]

\* the result object of refreshToken() and of getTokenStatus(), as the handler
\* serialises them
RefreshValue(r) ==
    << <<"success", JBool(r.success)>>, <<"lastRefresh", JDate(r.lastRefresh)>>,
       <<"message", JStr(r.message)>> >>

StatusValue(st) ==
    << <<"hasRefreshToken", JBool(st.hasRefreshToken)>>, <<"lastRefresh", JDate(st.lastRefresh)>>,
       <<"minutesSinceRefresh", JNum(st.minutesSinceRefresh)>>,
       <<"maintenanceActive", JBool(st.maintenanceActive)>> >>


\* refreshToken() as the case of the switch sees it
RefreshSettled(r) == IF r.threw THEN Throws(r.error) ELSE Returns(RefreshValue(r.value))

----------------------------------------------------------------------------
(* Initial state: `config` is any outcome of config.ts, nothing is built.  *)

NoReturn == [op |-> "none", threw |-> FALSE, value |-> <<>>]

\* a comma-separated list of folder ids: left out (undefined), or its fields in order
NoList == [given |-> FALSE, ids |-> <<>>]
List(ids) == [given |-> TRUE, ids |-> ids]

\* the moveFile calls that may be in progress at once, and a call not yet made
Movers == {1, 2}
NoMove == [pc |-> "idle", args |-> [given |-> FALSE], removeParents |-> NoList,
           requests |-> <<>>, threw |-> FALSE, value |-> <<>>, error |-> ErrorOf("")]
NoDrive == [parents |-> <<>>, moves |-> [i \in Movers |-> NoMove]]
NoCall == [id |-> 0, name |-> ""]
NoSettled == [threw |-> FALSE, value |-> <<>>, error |-> ErrorOf("")]
NoFatal == [message |-> "", by |-> ""]
NoExchange == [caller |-> "none", req |-> 0, key |-> 0, kind |-> "none"]

\* a step in which no exchange is answered and no facade method is called directly
NoTokenStep == exchanged' = NoExchange /\ returned' = NoReturn

\* what a step writes: its log lines go to the stream of their level, the
\* protocol messages of the transport (the handler's results) to stdout
Write(lines, messages) ==
    LET err == SelectSeq(lines, LAMBDA l : LoggerStream(l[1]) = "stderr")
        out == SelectSeq(lines, LAMBDA l : LoggerStream(l[1]) = "stdout")
    IN  /\ stderr' = err
        /\ stdout' = messages \o [i \in 1..Len(out) |-> [text |-> out[i]]]

\* a step that is none of the call-tool handler's
NoRouterStep ==
    /\ called' = NoCall
    /\ invoked' = NoMethod
    /\ settled' = NoSettled
    /\ UNCHANGED <<received, pending, answers>>

InitCommon ==
    /\ config \in Configs
    /\ exitCode = NoExit
    /\ fatal = NoFatal
    /\ driveService = DriveObject("none", FALSE)
    /\ gmailService = GmailObject("none", FALSE, FALSE)
    /\ lastTokenRefresh = 0
    /\ tokenRefreshInterval = Null
    /\ timers = {}
    /\ exchanges = {}
    /\ exchanged = NoExchange
    /\ now = 0
    /\ stderr = <<>>
    /\ received = 0
    /\ pending = {}
    /\ answers = [id \in 1..MaxRequests |-> <<>>]
    /\ called = NoCall
    /\ invoked = NoMethod
    /\ settled = NoSettled
    /\ stdout = <<>>
    /\ returned = NoReturn
    /\ remoteDrive = NoDrive

\* the process is about to evaluate `new GoogleDriveMCPServer()` (part_006:732)
Init == InitCommon /\ pc = "driveService"

\* an embedding caller is about to build a GmailService; the class reads none of
\* the service-account fields, which are left set
InitService ==
    /\ InitCommon
    /\ pc = "caller"
    /\ config.googleServiceAccountEmail = "value"
    /\ config.googlePrivateKey = "value"

Alive == pc \in {"running", "caller"}

----------------------------------------------------------------------------
(* Startup of the process (part_006:19-31 and 724-736).  An exception in   *)
(* the constructor is uncaught at module level: the process ends, code 1.  *)

\* part_006:27  this.driveService = new GoogleDriveService()
NewDriveService ==
    /\ pc = "driveService"
    /\ LET r == GoogleDriveService(config)
       IN  /\ driveService' = r.obj
           /\ Write(r.lines, <<>>)
           /\ IF r.threw
              THEN /\ pc' = "exited"
                   /\ exitCode' = 1
                   /\ fatal' = [message |-> r.error, by |-> r.by]
              ELSE pc' = "gmailService" /\ UNCHANGED <<exitCode, fatal>>
    /\ NoRouterStep
    /\ NoTokenStep
    /\ UNCHANGED <<config, remoteDrive, gmailService, tokenVars, now>>

\* a pending auth.getAccessToken(): who awaits it (the initial validation, the
\* interval callback, refreshToken()), for which tool call (0: none), and a key
\* that tells apart the calls of one caller (the tick's due time, a slot number)
Exchange(caller, req, key) == [caller |-> caller, req |-> req, key |-> key]

\* the state of the token maintenance once `new GmailService()` has run
GmailBuilt(r) ==
    /\ gmailService' = r.obj
    /\ lastTokenRefresh' = now
    /\ tokenRefreshInterval' = r.interval
    /\ timers' = IF r.interval # Null THEN {[handle |-> r.interval, due |-> r.due]} ELSE {}
    /\ exchanges' = IF r.initial THEN {Exchange("initial", 0, 0)} ELSE {}
    /\ exchanged' = NoExchange
    /\ Write(r.lines, <<>>)

\* part_006:28  this.gmailService = new GmailService()
NewGmailService ==
    /\ pc = "gmailService"
    /\ LET r == GmailService(config, now)
       IN  /\ GmailBuilt(r)
           /\ IF r.threw
              THEN /\ pc' = "exited"
                   /\ exitCode' = 1
                   /\ fatal' = [message |-> r.error, by |-> r.by]
              ELSE pc' = "setup" /\ UNCHANGED <<exitCode, fatal>>
    /\ returned' = NoReturn
    /\ NoRouterStep
    /\ UNCHANGED <<config, remoteDrive, driveService, now>>

\* part_006:29-30 and run(): the handlers are set, the transport is connected
StartServer ==
    /\ pc = "setup"
    /\ pc' = "running"
    /\ Write(<<LogLine("INFO", MsgServerRunning)>>, <<>>)
    /\ NoRouterStep
    /\ NoTokenStep
    /\ UNCHANGED <<config, remoteDrive, exitCode, fatal, facadeVars, tokenVars, now>>

\* part_006:718-721  the SIGINT handler: await this.server.close(); process.exit(0)
Sigint ==
    /\ pc = "running"
    /\ pc' = "exited"
    /\ exitCode' = 0
    /\ Write(<<>>, <<>>)
    /\ NoRouterStep
    /\ NoTokenStep
    /\ UNCHANGED <<config, remoteDrive, fatal, facadeVars, tokenVars, now>>

----------------------------------------------------------------------------
(* The clock.  It advances by DriftStep a few times after every multiple   *)
(* of TickPeriod, or to the next multiple; it never passes a due interval. *)

NoneDueBefore(t) == \A tm \in timers : tm.due > now /\ tm.due >= t

AdvanceDrift ==
    /\ Alive
    /\ gmailService.state # "none"
    /\ (now % TickPeriod) < MaxDrift * DriftStep
    /\ NoneDueBefore(now + DriftStep)
    /\ now' = now + DriftStep
    /\ Write(<<>>, <<>>)
    /\ NoRouterStep
    /\ NoTokenStep
    /\ UNCHANGED <<config, remoteDrive, procVars, facadeVars, tokenVars>>

AdvanceToTick ==
    /\ Alive
    /\ gmailService.state # "none"
    /\ LET t == ((now \div TickPeriod) + 1) * TickPeriod
       IN  /\ t <= MaxTicks * TickPeriod
           /\ NoneDueBefore(t)
           /\ now' = t
    /\ Write(<<>>, <<>>)
    /\ NoRouterStep
    /\ NoTokenStep
    /\ UNCHANGED <<config, remoteDrive, procVars, facadeVars, tokenVars>>

----------------------------------------------------------------------------
(* gmail.ts:89-96  the interval callback, up to its await.                 *)

Tick ==
    /\ Alive
    /\ \E tm \in timers :
         /\ tm.due <= now
         /\ timers' = (timers \ {tm}) \cup {[tm EXCEPT !.due = tm.due + TickPeriod]}
         /\ LET b == validateAndRefreshTokenBegin(config)
            IN  IF b.threw
                THEN /\ Write(MaintenanceCallback(b).lines, <<>>)
                     /\ UNCHANGED exchanges
                ELSE /\ Cardinality(exchanges) < MaxInFlight
                     /\ exchanges' = exchanges \cup {Exchange("tick", 0, tm.due)}
                     /\ Write(<<>>, <<>>)
    /\ NoRouterStep
    /\ NoTokenStep
    /\ UNCHANGED <<config, remoteDrive, procVars, facadeVars, lastTokenRefresh, tokenRefreshInterval, now>>

----------------------------------------------------------------------------
(* part_006:585-710  the call-tool handler.                                *)

\* the handler returns for request id, its case having settled to s
Answer(id, s, lines) ==
    /\ settled' = s
    /\ Write(lines, <<CallToolHandler(id, s)>>)
    /\ answers' = [answers EXCEPT ![id] = Append(@, CallToolHandler(id, s).result.isError)]

\* the handler up to the first await of the case it takes; a case that does not
\* wait answers in the same step
CallTool(name, hasArgs) ==
    /\ pc = "running"
    /\ received < MaxRequests
    /\ received' = received + 1
    /\ called' = [id |-> received + 1, name |-> name]
    /\ LET id == received + 1
           d == Dispatch(name)
           b == validateAndRefreshTokenBegin(config)
       IN  CASE d.service = "none" ->
                    /\ invoked' = NoMethod
                    /\ Answer(id, Throws(UnknownToolError(name)), <<>>)
                    /\ UNCHANGED <<pending, exchanges>>
             [] d.service # "none" /\ ~hasArgs /\ name \in ArgsReadInHandler ->
                    /\ invoked' = NoMethod
                    /\ Answer(id, Throws(TypeErrorNoArgs), <<>>)
                    /\ UNCHANGED <<pending, exchanges>>
             [] d.service # "none" /\ ~hasArgs /\ name \in ArgsReadInMethod ->
                    /\ invoked' = d.method
                    /\ Answer(id, Throws(TypeErrorNoArgs), <<>>)
                    /\ UNCHANGED <<pending, exchanges>>
             [] d.method = "getTokenStatus" ->
                    /\ invoked' = d.method
                    /\ Answer(id, Returns(StatusValue(
                           getTokenStatus(config, now, lastTokenRefresh, tokenRefreshInterval))), <<>>)
                    /\ UNCHANGED <<pending, exchanges>>
             [] d.method = "refreshToken" /\ b.threw ->
                    /\ invoked' = d.method
                    /\ Answer(id, RefreshSettled(refreshTokenResult(
                           [threw |-> TRUE, error |-> b.error, last |-> lastTokenRefresh])), <<>>)
                    /\ UNCHANGED <<pending, exchanges>>
             [] d.method = "refreshToken" /\ ~b.threw ->
                    /\ Cardinality(exchanges) < MaxInFlight
                    /\ invoked' = d.method
                    /\ pending' = pending \cup {[id |-> id, name |-> name]}
                    /\ exchanges' = exchanges \cup {Exchange("manual", id, id)}
                    /\ settled' = NoSettled
                    /\ Write(<<>>, <<>>)
                    /\ UNCHANGED answers
             [] OTHER ->
                    /\ invoked' = d.method
                    /\ pending' = pending \cup {[id |-> id, name |-> name]}
                    /\ settled' = NoSettled
                    /\ Write(<<>>, <<>>)
                    /\ UNCHANGED <<answers, exchanges>>
    /\ NoTokenStep
    /\ UNCHANGED <<config, remoteDrive, procVars, facadeVars, lastTokenRefresh, tokenRefreshInterval,
                   timers, now>>

\* the facade method called for a pending request settles; the handler answers
FacadeSettles(p, o) ==
    /\ pc = "running"
    /\ p \in pending
    /\ Dispatch(p.name).method # "refreshToken"
    /\ LET s == FacadeSettled(Dispatch(p.name), o)
       IN  Answer(p.id, [threw |-> s.threw, value |-> s.value, error |-> s.error], s.lines)
    /\ pending' = pending \ {p}
    /\ called' = NoCall
    /\ invoked' = NoMethod
    /\ NoTokenStep
    /\ UNCHANGED <<config, remoteDrive, procVars, facadeVars, tokenVars, now, received>>

(* gmail.ts:117-128  auth.getAccessToken() answers: the rest of             *)
(* validateAndRefreshToken runs, then the rest of its caller.              *)

ExchangeAnswers(x, o) ==
    /\ Alive
    /\ x \in exchanges
    /\ exchanges' = exchanges \ {x}
    /\ exchanged' = [caller |-> x.caller, req |-> x.req, key |-> x.key, kind |-> o.kind]
    /\ LET v == validateAndRefreshTokenEnd(o, now, lastTokenRefresh)
           r == refreshTokenResult(v)
           cb == IF x.caller = "tick" THEN MaintenanceCallback(v) ELSE InitialCatch(v)
       IN  /\ lastTokenRefresh' = v.last
           /\ CASE x.caller = "manual" /\ x.req > 0 ->
                     /\ Answer(x.req, RefreshSettled(r), v.lines)
                     /\ pending' = {p \in pending : p.id # x.req}
                     /\ called' = NoCall
                     /\ invoked' = NoMethod
                     /\ returned' = NoReturn
                     /\ UNCHANGED <<received, procVars>>
                [] x.caller = "manual" /\ x.req = 0 ->
                     /\ returned' = [op |-> "refreshToken", threw |-> r.threw,
                                     value |-> IF r.threw THEN <<>> ELSE r.value]
                     /\ Write(v.lines, <<>>)
                     /\ NoRouterStep
                     /\ UNCHANGED procVars
                [] OTHER ->
                     /\ Write(v.lines \o cb.lines, <<>>)
                     /\ returned' = NoReturn
                     /\ NoRouterStep
                     \* a rejection nobody handles ends the process with code 1
                     /\ IF cb.threw
                        THEN /\ pc' = "exited"
                             /\ exitCode' = 1
                             /\ fatal' = [message |-> ErrorText(v.error), by |-> x.caller]
                        ELSE UNCHANGED procVars
    /\ UNCHANGED <<config, remoteDrive, facadeVars, tokenRefreshInterval, timers, now>>

----------------------------------------------------------------------------
(* The GmailService class called directly by an embedding caller.          *)

CallNewGmailService ==
    /\ pc = "caller"
    /\ gmailService.state = "none"
    /\ LET r == GmailService(config, now)
       IN  /\ GmailBuilt(r)
           /\ returned' = [op |-> "new GmailService", threw |-> r.threw, value |-> r.error]
    /\ NoRouterStep
    /\ UNCHANGED <<config, remoteDrive, procVars, driveService, now>>

\* the slots of the direct refreshToken() calls awaiting their exchange
ManualSlots == {x.key : x \in {y \in exchanges : y.caller = "manual" /\ y.req = 0}}

CallRefreshToken ==
    /\ pc = "caller"
    /\ gmailService.state = "built"
    /\ LET b == validateAndRefreshTokenBegin(config)
           r == refreshTokenResult([threw |-> TRUE, error |-> b.error,
                                    last |-> lastTokenRefresh])
       IN  IF b.threw
           THEN /\ returned' = [op |-> "refreshToken", threw |-> r.threw,
                                value |-> IF r.threw THEN <<>> ELSE r.value]
                /\ UNCHANGED exchanges
           ELSE /\ Cardinality(exchanges) < MaxInFlight
                /\ \E k \in 1..MaxInFlight :
                     /\ k \notin ManualSlots
                     /\ \A j \in 1..(k - 1) : j \in ManualSlots
                     /\ exchanges' = exchanges \cup {Exchange("manual", 0, k)}
                /\ returned' = [op |-> "refreshToken pending", threw |-> FALSE, value |-> <<>>]
    /\ Write(<<>>, <<>>)
    /\ exchanged' = NoExchange
    /\ NoRouterStep
    /\ UNCHANGED <<config, remoteDrive, procVars, facadeVars, lastTokenRefresh, tokenRefreshInterval,
                   timers, now>>

CallGetTokenStatus ==
    /\ pc = "caller"
    /\ gmailService.state = "built"
    /\ returned' = [op |-> "getTokenStatus", threw |-> FALSE,
                    value |-> getTokenStatus(config, now, lastTokenRefresh,
                                             tokenRefreshInterval)]
    /\ Write(<<>>, <<>>)
    /\ exchanged' = NoExchange
    /\ NoRouterStep
    /\ UNCHANGED <<config, remoteDrive, procVars, facadeVars, tokenVars, now>>

\* gmail.ts:182-188  destroy(): clearInterval removes the interval from the event loop
CallDestroy ==
    /\ pc = "caller"
    /\ gmailService.state = "built"
    /\ LET r == destroy(tokenRefreshInterval)
       IN  /\ tokenRefreshInterval' = r.interval
           /\ timers' = {tm \in timers : tm.handle \notin r.cleared}
           /\ Write(r.lines, <<>>)
    /\ returned' = [op |-> "destroy", threw |-> FALSE, value |-> <<>>]
    /\ exchanged' = NoExchange
    /\ NoRouterStep
    /\ UNCHANGED <<config, remoteDrive, procVars, facadeVars, lastTokenRefresh, exchanges, now>>

----------------------------------------------------------------------------

Next ==
    \/ NewDriveService
    \/ NewGmailService
    \/ StartServer
    \/ \E name \in SentNames, hasArgs \in BOOLEAN : CallTool(name, hasArgs)
    \/ \E p \in pending, o \in RemoteOutcomes : FacadeSettles(p, o)
    \/ Tick
    \/ \E x \in exchanges, o \in ExchangeOutcomes : ExchangeAnswers(x, o)
    \/ AdvanceToTick
    \/ Sigint

Spec == Init /\ [][Next]_vars

NextService ==
    \/ CallNewGmailService
    \/ CallRefreshToken
    \/ CallGetTokenStatus
    \/ CallDestroy
    \/ Tick
    \/ \E x \in exchanges, o \in ExchangeOutcomes : ExchangeAnswers(x, o)
    \/ AdvanceDrift
    \/ AdvanceToTick

SpecService == InitService /\ [][NextService]_vars

----------------------------------------------------------------------------
(* Text.  The methods below build and take apart text, so text is kept as  *)
(* the sequence of its character codes (ASCII).                            *)

\* '\n'
NL == 10

HdrTo == <<84, 111, 58, 32>>                            \* "To: "
HdrFrom == <<70, 114, 111, 109, 58, 32>>                \* "From: "
HdrSubject == <<83, 117, 98, 106, 101, 99, 116, 58, 32>> \* "Subject: "

\* an optional string argument: left out (undefined) or given
NoText == [given |-> FALSE, text |-> <<>>]
Text(t) == [given |-> TRUE, text |-> t]
TruthyText(a) == a.given /\ Len(a.text) > 0

\* Array.prototype.join('\n')
RECURSIVE JoinLines(_)
JoinLines(lines) ==
    IF Len(lines) = 0 THEN <<>>
    ELSE IF Len(lines) = 1 THEN lines[1]
    ELSE lines[1] \o <<NL>> \o JoinLines(Tail(lines))

\* base64: a character of the encoding is kept as its index in the alphabet
\* (0..63), the padding character '=' as Pad
Pad == 64

\* Buffer.from(text).toString('base64')
RECURSIVE Base64Encode(_)
Base64Encode(b) ==
    IF Len(b) = 0 THEN <<>>
    ELSE IF Len(b) = 1
    THEN <<b[1] \div 4, (b[1] % 4) * 16, Pad, Pad>>
    ELSE IF Len(b) = 2
    THEN <<b[1] \div 4, (b[1] % 4) * 16 + b[2] \div 16, (b[2] % 16) * 4, Pad>>
    ELSE <<b[1] \div 4, (b[1] % 4) * 16 + b[2] \div 16, (b[2] % 16) * 4 + b[3] \div 64,
           b[3] % 64>> \o Base64Encode(SubSeq(b, 4, Len(b)))

\* Buffer.from(data, 'base64').toString()
RECURSIVE Base64Decode(_)
Base64Decode(e) ==
    IF Len(e) < 4 THEN <<>>
    ELSE LET q == SubSeq(e, 1, 4)
             rest == Base64Decode(SubSeq(e, 5, Len(e)))
         IN  IF q[3] = Pad
             THEN <<q[1] * 4 + q[2] \div 16>>
             ELSE IF q[4] = Pad
             THEN <<q[1] * 4 + q[2] \div 16, (q[2] % 16) * 16 + q[3] \div 4>>
             ELSE <<q[1] * 4 + q[2] \div 16, (q[2] % 16) * 16 + q[3] \div 4,
                    (q[3] % 4) * 64 + q[4]>> \o rest

----------------------------------------------------------------------------
(* gmail.ts:241-265  sendMessage.                                          *)

\* the lines of the email, joined
sendMessageEmail(to, subject, body, from) ==
    JoinLines(<< HdrTo \o to,
                 IF TruthyText(from) THEN HdrFrom \o from.text ELSE <<>>,
                 HdrSubject \o subject,
                 <<>>,
                 body >>)

\* the request given to gmail.users.messages.send
sendMessageRequest(to, subject, body, from) ==
    [api |-> "gmail.users.messages.send", userId |-> "me",
     raw |-> Base64Encode(sendMessageEmail(to, subject, body, from))]

----------------------------------------------------------------------------
(* google-drive.ts:245-262  deleteFile.                                    *)

\* an optional boolean argument: left out (undefined) or given
NoFlag == [given |-> FALSE, flag |-> FALSE]
Flag(b) == [given |-> TRUE, flag |-> b]

\* the `args` object of a call, or no object at all
NoArgs == [given |-> FALSE]

\* what settling a remote call with outcome o makes of a Drive method: the value it
\* returns, or the Error its catch throws
DriveSettled(method, value, o) ==
    IF o.kind = "data"
    THEN [threw |-> FALSE, value |-> value, error |-> ErrorOf(""), lines |-> <<>>]
    ELSE [threw |-> TRUE, value |-> <<>>,
          error |-> ErrorOf(DriveFailure(method) \o ": " \o ErrorText(o.error)),
          lines |-> <<>>]

\* reading a property of `args` when there is no object: a TypeError, thrown
\* before the try, no request sent
ThrownNoArgs == [threw |-> TRUE, value |-> <<>>, error |-> TypeErrorNoArgs, lines |-> <<>>]

\* A deleteFile whose flag defaults to true.
deleteFileDefaultPermanent(args) ==
    IF ~args.given THEN <<>>
    ELSE IF (IF args.permanent.given THEN args.permanent.flag ELSE TRUE)
    THEN <<[api |-> "drive.files.delete", fileId |-> args.fileId]>>
    ELSE <<[api |-> "drive.files.update", fileId |-> args.fileId,
            resource |-> [trashed |-> TRUE]]>>

\* the requests deleteFile sends (`permanent = false` when left out)
deleteFileRequests(args) ==
    IF ~args.given THEN <<>>
    ELSE IF (IF args.permanent.given THEN args.permanent.flag ELSE FALSE)
    THEN <<[api |-> "drive.files.delete", fileId |-> args.fileId]>>
    ELSE <<[api |-> "drive.files.update", fileId |-> args.fileId,
            resource |-> [trashed |-> TRUE]]>>

\* what deleteFile returns or throws, its request answered with o
deleteFile(args, o) ==
    IF ~args.given THEN ThrownNoArgs
    ELSE DriveSettled("deleteFile",
             IF deleteFileRequests(args)[1].api = "drive.files.delete"
             THEN << <<"success", JBool(TRUE)>>, <<"message", JStr("File permanently deleted")>> >>
             ELSE << <<"success", JBool(TRUE)>>, <<"message", JStr("File moved to trash")>> >>,
             o)

----------------------------------------------------------------------------
(* google-drive.ts:64-104 listFiles and 424-467 search: the filter they    *)
(* build and the request they send.                                        *)

\* an optional number argument: left out (undefined) or given
NoNumber == [given |-> FALSE, n |-> 0]
Number(n) == [given |-> TRUE, n |-> n]

\* `maxResults = 100` and Math.min(maxResults, 1000)
DefaultMaxResults == 100
MaxPageSize == 1000

PageSize(maxResults) ==
    LET m == IF maxResults.given THEN maxResults.n ELSE DefaultMaxResults
    IN  IF m < MaxPageSize THEN m ELSE MaxPageSize

\* listFiles with no args object is listFiles({})
ListFilesDefaults ==
    [given |-> TRUE, folderId |-> Undefined, query |-> Undefined,
     maxResults |-> NoNumber, includeShared |-> NoFlag]

\* A listFiles that joins the owners clause with `or`.
listFilesQueryOr(args) ==
    LET a == IF args.given THEN args ELSE ListFilesDefaults
    IN  "trashed=false"
        \o (IF Truthy(a.folderId) THEN " and '" \o a.folderId \o "' in parents" ELSE "")
        \o (IF Truthy(a.query)
            THEN " and (name contains '" \o a.query \o "' or fullText contains '"
                 \o a.query \o "')"
            ELSE "")
        \o (IF ~(IF a.includeShared.given THEN a.includeShared.flag ELSE TRUE)
            THEN " or 'me' in owners" ELSE "")

\* the searchQuery of listFiles (`includeShared = true` when left out)
listFilesQuery(args) ==
    LET a == IF args.given THEN args ELSE ListFilesDefaults
    IN  "trashed=false"
        \o (IF Truthy(a.folderId) THEN " and '" \o a.folderId \o "' in parents" ELSE "")
        \o (IF Truthy(a.query)
            THEN " and (name contains '" \o a.query \o "' or fullText contains '"
                 \o a.query \o "')"
            ELSE "")
        \o (IF ~(IF a.includeShared.given THEN a.includeShared.flag ELSE TRUE)
            THEN " and 'me' in owners" ELSE "")

listFilesRequest(args) ==
    [api |-> "drive.files.list", q |-> listFilesQuery(args),
     pageSize |-> PageSize((IF args.given THEN args ELSE ListFilesDefaults).maxResults),
     orderBy |-> "modifiedTime desc"]

\* the files of a files.list response
ListedFiles == <<[id |-> "1a2b", name |-> "report"]>>

listFiles(args, o) ==
    DriveSettled("listFiles", [files |-> ListedFiles, totalCount |-> Len(ListedFiles)], o)

\* search with no args object is search({})
SearchDefaults ==
    [given |-> TRUE, query |-> Undefined, mimeType |-> Undefined,
     modifiedTime |-> Undefined, owner |-> Undefined, maxResults |-> NoNumber]

\* the searchQuery of search
searchQuery(args) ==
    LET a == IF args.given THEN args ELSE SearchDefaults
    IN  "trashed=false"
        \o (IF Truthy(a.query)
            THEN " and (name contains '" \o a.query \o "' or fullText contains '"
                 \o a.query \o "')"
            ELSE "")
        \o (IF Truthy(a.mimeType) THEN " and mimeType='" \o a.mimeType \o "'" ELSE "")
        \o (IF Truthy(a.modifiedTime)
            THEN " and modifiedTime > '" \o a.modifiedTime \o "'" ELSE "")
        \o (IF Truthy(a.owner) THEN " and '" \o a.owner \o "' in owners" ELSE "")

searchRequest(args) ==
    [api |-> "drive.files.list", q |-> searchQuery(args),
     pageSize |-> PageSize((IF args.given THEN args ELSE SearchDefaults).maxResults),
     orderBy |-> "relevance"]

search(args, o) ==
    DriveSettled("search",
                 [files |-> ListedFiles, query |-> searchQuery(args),
                  totalCount |-> Len(ListedFiles)], o)

----------------------------------------------------------------------------
(* google-drive.ts:147-182 downloadFile, 591-611 its helpers.  A MIME type *)
(* is kept in two pieces, its first characters (as many as the prefix      *)
(* tested by startsWith has) and the rest.                                 *)

WorkspacePrefix == "application/vnd.google-apps."

Mime(head, rest) == [head |-> head, rest |-> rest]
MimeString(m) == m.head \o m.rest

\* An isGoogleWorkspaceFile that knows only the types with a default format.
isGoogleWorkspaceFileListed(m) ==
    MimeString(m) \in {WorkspacePrefix \o t :
                         t \in {"document", "spreadsheet", "presentation", "drawing", "script"}}

\* mimeType.startsWith("application/vnd.google-apps.")
isGoogleWorkspaceFile(m) == m.head = WorkspacePrefix

\* exportFormats[mimeType] || "application/pdf"
getDefaultExportFormat(m) ==
    CASE MimeString(m) = "application/vnd.google-apps.document" ->
             "application/vnd.openxmlformats-officedocument.wordprocessingml.document"
      [] MimeString(m) = "application/vnd.google-apps.spreadsheet" ->
             "application/vnd.openxmlformats-officedocument.spreadsheetml.sheet"
      [] MimeString(m) = "application/vnd.google-apps.presentation" ->
             "application/vnd.openxmlformats-officedocument.presentationml.presentation"
      [] MimeString(m) = "application/vnd.google-apps.drawing" -> "image/png"
      [] MimeString(m) = "application/vnd.google-apps.script" ->
             "application/vnd.google-apps.script+json"
      [] OTHER -> "application/pdf"

\* a downloadFile that sends the read of the file's name and type again when it
\* is rejected
downloadFileRequestsRetry(args, o1, o2) ==
    LET fileInfo == [api |-> "drive.files.get", fileId |-> args.fileId,
                     fields |-> "mimeType, name", answer |-> o1]
        response == IF isGoogleWorkspaceFile(o1.mimeType)
                    THEN [api |-> "drive.files.export", fileId |-> args.fileId,
                          mimeType |-> IF Truthy(args.format) THEN args.format
                                       ELSE getDefaultExportFormat(o1.mimeType),
                          answer |-> o2]
                    ELSE [api |-> "drive.files.get", fileId |-> args.fileId,
                          alt |-> "media", answer |-> o2]
    IN  IF ~args.given THEN <<>>
        ELSE IF o1.kind # "data" THEN <<fileInfo, fileInfo>>
        ELSE <<fileInfo, response>>

\* the requests downloadFile sends, each with its answer: the read of the
\* file's name and type (answered o1), then the content request (answered o2)
downloadFileRequests(args, o1, o2) ==
    LET fileInfo == [api |-> "drive.files.get", fileId |-> args.fileId,
                     fields |-> "mimeType, name", answer |-> o1]
        exportFormat == IF Truthy(args.format) THEN args.format
                        ELSE getDefaultExportFormat(o1.mimeType)
        response == IF isGoogleWorkspaceFile(o1.mimeType)
                    THEN [api |-> "drive.files.export", fileId |-> args.fileId,
                          mimeType |-> exportFormat, answer |-> o2]
                    ELSE [api |-> "drive.files.get", fileId |-> args.fileId,
                          alt |-> "media", answer |-> o2]
    IN  IF ~args.given THEN <<>>
        ELSE IF o1.kind # "data" THEN <<fileInfo>>
        ELSE <<fileInfo, response>>

downloadFile(args, o1, o2) ==
    LET data == "hello"
    IN  IF ~args.given THEN ThrownNoArgs
        ELSE IF o1.kind # "data" THEN DriveSettled("downloadFile", <<>>, o1)
        ELSE DriveSettled("downloadFile",
                          [fileName |-> o1.name, mimeType |-> MimeString(o1.mimeType),
                           content |-> data, size |-> Len(data)], o2)

----------------------------------------------------------------------------
(* gmail.ts:363-381  extractTextFromMessage.  A message is a record whose  *)
(* payload, body, parts and headers are each given or left out; the data   *)
(* of a body is base64 text, given or left out.                            *)

\* a scan that takes the first part with data, whatever its type
RECURSIVE FirstPartWithData(_)
FirstPartWithData(parts) ==
    IF Len(parts) = 0 THEN <<>>
    ELSE IF Head(parts).body.given /\ TruthyText(Head(parts).body.data)
    THEN Base64Decode(Head(parts).body.data.text)
    ELSE FirstPartWithData(Tail(parts))

\* for (const part of message.payload.parts) ...; return ''
RECURSIVE FirstPlainText(_)
FirstPlainText(parts) ==
    IF Len(parts) = 0 THEN <<>>
    ELSE IF /\ Head(parts).mimeType = "text/plain"
            /\ Head(parts).body.given
            /\ TruthyText(Head(parts).body.data)
    THEN Base64Decode(Head(parts).body.data.text)
    ELSE FirstPlainText(Tail(parts))

extractTextFromMessage(message) ==
    IF ~message.payload.given THEN <<>>
    ELSE IF message.payload.body.given /\ TruthyText(message.payload.body.data)
    THEN Base64Decode(message.payload.body.data.text)
    ELSE IF message.payload.parts.given
    THEN FirstPlainText(message.payload.parts.list)
    ELSE <<>>

----------------------------------------------------------------------------
(* gmail.ts:318-352 searchMessages, 217-229 getMessage, 390-398            *)
(* getHeaderValue.  Header names and values are byte sequences.            *)

\* String.prototype.toLowerCase, for ASCII
ToLowerCase(str) == [k \in 1..Len(str) |-> IF str[k] \in 65..90 THEN str[k] + 32 ELSE str[k]]

\* headers.find(h => h.name.toLowerCase() === headerName.toLowerCase()), then its
\* value, '' when there is no payload, no headers or no such header
getHeaderValue(message, headerName) ==
    IF ~message.payload.given THEN <<>>
    ELSE IF ~message.payload.headers.given THEN <<>>
    ELSE LET headers == message.payload.headers.list
             found == { k \in 1..Len(headers) :
                          ToLowerCase(headers[k].name) = ToLowerCase(headerName) }
         IN  IF found = {} THEN <<>>
             ELSE headers[CHOOSE k \in found : \A j \in found : k <= j].value

\* what users.messages.get answers for a message id: the full message
FullMessage(id) ==
    LET Left == [given |-> FALSE]
        Header(name, value) == [name |-> name, value |-> value]
        Body(t) == [given |-> TRUE, data |-> Text(Base64Encode(t))]
        payload ==
            CASE id = "m1" ->
                   [given |-> TRUE, mimeType |-> "text/plain", body |-> Body(<<104, 105>>),
                    parts |-> Left,
                    headers |-> [given |-> TRUE, list |->
                        << Header(<<70, 114, 111, 109>>, <<97, 64, 98>>),
                           Header(<<84, 111>>, <<99, 64, 100>>),
                           Header(<<83, 117, 98, 106, 101, 99, 116>>, <<83, 49>>),
                           Header(<<68, 97, 116, 101>>, <<50, 48, 50, 52>>) >>]]
              [] id = "m2" ->
                   [given |-> TRUE, mimeType |-> "multipart/alternative", body |-> Left,
                    parts |-> [given |-> TRUE, list |->
                        << [mimeType |-> "text/html", body |-> Body(<<60, 98, 62>>)],
                           [mimeType |-> "text/plain", body |-> Body(<<116, 101, 120, 116>>)] >>],
                    headers |-> [given |-> TRUE, list |->
                        << Header(<<115, 117, 98, 106, 101, 99, 116>>, <<83, 50>>),
                           Header(<<83, 85, 66, 74, 69, 67, 84>>, <<88>>) >>]]
              [] OTHER -> Left
    IN  [id |-> id, threadId |-> "t-" \o id, snippet |-> "snippet of " \o id,
         payload |-> payload]

\* a Promise.all that yields the values in the order the promises settled
PromiseAllAsSettled(settlements, order) ==
    IF \E k \in 1..Len(settlements) : settlements[k].threw
    THEN LET first == CHOOSE k \in 1..Len(order) :
                          /\ settlements[order[k]].threw
                          /\ \A j \in 1..(k - 1) : ~settlements[order[j]].threw
         IN  [threw |-> TRUE, value |-> <<>>, error |-> settlements[order[first]].error]
    ELSE [threw |-> FALSE, value |-> [k \in 1..Len(order) |-> settlements[order[k]].value],
          error |-> ErrorOf("")]

\* Promise.all over promises that settle in the order `order`: the values in the
\* order of the promises, or the first rejection there was
PromiseAll(settlements, order) ==
    IF \E k \in 1..Len(settlements) : settlements[k].threw
    THEN LET first == CHOOSE k \in 1..Len(order) :
                          /\ settlements[order[k]].threw
                          /\ \A j \in 1..(k - 1) : ~settlements[order[j]].threw
         IN  [threw |-> TRUE, value |-> <<>>, error |-> settlements[order[first]].error]
    ELSE [threw |-> FALSE, value |-> [k \in 1..Len(settlements) |-> settlements[k].value],
          error |-> ErrorOf("")]

DefaultSearchResults == 50

\* the requests searchMessages sends, each with its answer: the listing, then one
\* users.messages.get per listed message, in the order of the listing
searchMessagesRequests(query, listing, fetches) ==
    LET list == [api |-> "gmail.users.messages.list", userId |-> "me", q |-> query,
                 maxResults |-> DefaultSearchResults, answer |-> listing]
    IN  IF listing.kind # "data" \/ ~listing.messages.given THEN <<list>>
        ELSE <<list>> \o [k \in 1..Len(listing.messages.list) |->
                            [api |-> "gmail.users.messages.get", userId |-> "me",
                             id |-> listing.messages.list[k], format |-> "full",
                             answer |-> fetches[k]]]

\* what searchMessages returns or throws: the fetches settle in the order `order`
searchMessages(query, listing, fetches, order) ==
    LET Failed(method, e) ==
            LogLine("ERROR", GmailFailure(method) \o " " \o LogArg(e))
        Projected(full) ==
            [id |-> full.id, threadId |-> full.threadId, snippet |-> full.snippet,
             subject |-> getHeaderValue(full, <<83, 117, 98, 106, 101, 99, 116>>),
             from |-> getHeaderValue(full, <<70, 114, 111, 109>>),
             to |-> getHeaderValue(full, <<84, 111>>),
             date |-> getHeaderValue(full, <<68, 97, 116, 101>>),
             body |-> extractTextFromMessage(full)]
        settlements ==
            [k \in 1..Len(listing.messages.list) |->
                IF fetches[k].kind = "data"
                THEN [threw |-> FALSE, error |-> ErrorOf(""),
                      value |-> Projected(FullMessage(listing.messages.list[k]))]
                ELSE [threw |-> TRUE, error |-> fetches[k].error, value |-> <<>>]]
        all == PromiseAll(settlements, order)
    IN  IF listing.kind # "data"
        THEN [threw |-> TRUE, value |-> <<>>, error |-> listing.error,
              lines |-> <<Failed("searchMessages", listing.error)>>]
        ELSE IF ~listing.messages.given
        THEN [threw |-> FALSE, value |-> <<>>, error |-> ErrorOf(""), lines |-> <<>>]
        ELSE IF all.threw
        THEN [threw |-> TRUE, value |-> <<>>, error |-> all.error,
              lines |-> <<Failed("getMessage", all.error), Failed("searchMessages", all.error)>>]
        ELSE [threw |-> FALSE, value |-> all.value, error |-> ErrorOf(""), lines |-> <<>>]

----------------------------------------------------------------------------
(* The facades' methods called directly by an embedding caller, both       *)
(* facades built (SpecFacade).  A call is taken whole: the requests it     *)
(* sends, what they answer, what the method returns or throws.             *)

\* addresses, subjects and bodies the caller sends
Addresses == { <<97, 64, 98>>, <<99, 64, 100, 46, 101>> }       \* "a@b", "c@d.e"
Subjects == { <<>>, <<83>>, <<72, 105, 33>> }                   \* "", "S", "Hi!"
Bodies == { <<>>, <<66>>, <<66, NL, NL, 67, 68>> }              \* "", "B", "B\n\nCD"
Senders == { NoText, Text(<<>>), Text(<<120, 64, 121>>) }       \* undefined, "", "x@y"

\* both facades built by a caller whose configuration has no refresh token
FacadesBuilt ==
    /\ config = [f \in CredFields |-> IF f = "googleRefreshToken" THEN Undefined ELSE "value"]
    /\ pc = "caller"
    /\ exitCode = NoExit
    /\ fatal = NoFatal
    /\ driveService = DriveObject("built", TRUE)
    /\ gmailService = GmailObject("built", TRUE, TRUE)
    /\ lastTokenRefresh = 0
    /\ tokenRefreshInterval = Null
    /\ timers = {}
    /\ exchanges = {}
    /\ exchanged = NoExchange
    /\ now = 0
    /\ stderr = <<>>
    /\ received = 0
    /\ pending = {}
    /\ answers = [id \in 1..MaxRequests |-> <<>>]
    /\ called = NoCall
    /\ invoked = NoMethod
    /\ settled = NoSettled
    /\ stdout = <<>>
    /\ returned = NoReturn

InitFacade == FacadesBuilt /\ remoteDrive = NoDrive

\* a direct call of a facade method returns: its arguments, the requests it sent
\* in order, whether it threw and what it returned or threw
FacadeReturn(op, args, requests, s) ==
    /\ pc = "caller"
    /\ returned' = [op |-> op, threw |-> s.threw,
                    value |-> [args |-> args, requests |-> requests,
                               result |-> IF s.threw THEN s.error ELSE s.value]]
    /\ Write(s.lines, <<>>)
    /\ exchanged' = NoExchange
    /\ NoRouterStep
    /\ UNCHANGED <<config, remoteDrive, procVars, facadeVars, tokenVars, now>>

CallSendMessage(to, subject, body, from, o) ==
    /\ gmailService.state = "built"
    /\ FacadeReturn("sendMessage",
                    [to |-> to, subject |-> subject, body |-> body, from |-> from],
                    <<sendMessageRequest(to, subject, body, from)>>,
                    FacadeSettled([service |-> "gmail", method |-> "sendMessage"], o))

\* file ids the caller names
FileIds == {"1a2b", "9z"}

DeleteFileArgs ==
    {NoArgs} \cup { [given |-> TRUE, fileId |-> f, permanent |-> p] :
                       f \in FileIds, p \in {NoFlag, Flag(FALSE), Flag(TRUE)} }

CallDeleteFile(args, o) ==
    /\ driveService.state = "built"
    /\ FacadeReturn("deleteFile", args, deleteFileRequests(args), deleteFile(args, o))

ListFilesArgs ==
    {NoArgs} \cup
    { [given |-> TRUE, folderId |-> f, query |-> q, maxResults |-> m, includeShared |-> i] :
        f \in {Undefined, "", "root"}, q \in {Undefined, "", "report"},
        m \in {NoNumber, Number(2 * MaxPageSize)}, i \in {NoFlag, Flag(TRUE), Flag(FALSE)} }

CallListFiles(args, o) ==
    /\ driveService.state = "built"
    /\ FacadeReturn("listFiles", args, <<listFilesRequest(args)>>, listFiles(args, o))

SearchArgs ==
    {NoArgs} \cup
    { [given |-> TRUE, query |-> q, mimeType |-> t, modifiedTime |-> d, owner |-> w,
       maxResults |-> m] :
        q \in {Undefined, "", "report"}, t \in {Undefined, "text/plain"},
        d \in {Undefined, "2024-01-01T00:00:00.000Z"}, w \in {Undefined, "a@b"},
        m \in {NoNumber} }

CallSearch(args, o) ==
    /\ driveService.state = "built"
    /\ FacadeReturn("search", args, <<searchRequest(args)>>, search(args, o))

\* the types of the files the caller downloads
MimeTypes ==
    { Mime(WorkspacePrefix, t) :
        t \in {"document", "spreadsheet", "presentation", "drawing", "script", "form"} }
    \cup { Mime("text/plain", ""), Mime("application/pdf", ""),
           Mime("application/vnd.google-apps", "") }

DownloadFileArgs ==
    {NoArgs} \cup { [given |-> TRUE, fileId |-> f, format |-> x] :
                       f \in FileIds, x \in {Undefined, "", "text/csv"} }

MetadataOutcomes ==
    { [kind |-> "data", name |-> "report", mimeType |-> m] : m \in MimeTypes } \cup { o \in RemoteOutcomes : o.kind = "reject" }

CallDownloadFile(args, o1, o2) ==
    /\ driveService.state = "built"
    /\ FacadeReturn("downloadFile", args, downloadFileRequests(args, o1, o2),
                    downloadFile(args, o1, o2))

\* the messages the caller hands to extractTextFromMessage: no payload, a flat
\* payload (plain or HTML), or a multipart payload; a body is left out, without
\* data, or carries the data of "hi", "text" or "<b>"
Messages ==
    LET Left == [given |-> FALSE]
        Body(t) == [given |-> TRUE, data |-> t]
        Hi == Text(Base64Encode(<<104, 105>>))
        Txt == Text(Base64Encode(<<116, 101, 120, 116>>))
        Html == [mimeType |-> "text/html", body |-> Body(Text(Base64Encode(<<60, 98, 62>>)))]
        Plain(b) == [mimeType |-> "text/plain", body |-> b]
        Part == { Html, Plain(Left), Plain(Body(NoText)), Plain(Body(Hi)) }
        Lists == { <<>> } \cup { <<x>> : x \in Part } \cup { <<x, y>> : x, y \in Part }
                    \cup { <<Html, Html, Plain(Body(Txt))>>,
                           <<Html, Plain(Body(Hi)), Plain(Body(Txt))>> }
        BodyOf == { Left, Body(NoText), Body(Hi), Body(Txt) }
        HeadersOf == { Left, [given |-> TRUE, list |-> <<>>] }
        Payload(t, b, ps, h) ==
            [given |-> TRUE, mimeType |-> t, body |-> b, parts |-> ps, headers |-> h]
    IN  { [payload |-> Left] }
        \cup { [payload |-> Payload(t, b, Left, h)] :
                 t \in {"text/plain", "text/html"}, b \in BodyOf, h \in HeadersOf }
        \cup { [payload |-> Payload("multipart/alternative", b,
                                    [given |-> TRUE, list |-> l], h)] :
                 b \in BodyOf, l \in Lists, h \in HeadersOf }

CallExtractTextFromMessage(message) ==
    /\ gmailService.state = "built"
    /\ FacadeReturn("extractTextFromMessage", message, <<>>,
                    [threw |-> FALSE, value |-> extractTextFromMessage(message),
                     lines |-> <<>>])

\* the answers searchMessages can meet: the listing is rejected, has no `messages`,
\* or lists up to three messages; each fetch answers or is rejected (of three
\* fetches: none, the last two each with its own error, or the first); the
\* fetches settle in any order
SearchMessagesInputs ==
    LET Lists == { <<>>, <<"m1">>, <<"m2", "m1">>, <<"m1", "m2", "m3">> }
        Orders(n) == { p \in [1..n -> 1..n] : \A i, j \in 1..n : p[i] = p[j] => i = j }
        Data == [kind |-> "data"]
        Reject(message) == [kind |-> "reject", error |-> ErrorOf(message)]
        Fetches(n) ==
            IF n < 3 THEN [1..n -> RemoteOutcomes]
            ELSE { <<Data, Data, Data>>, <<Data, Reject("invalid_grant"), Reject("quota")>>,
                   <<Reject("invalid_grant"), Data, Data>> }
    IN  { [listing |-> o, fetches |-> <<>>, order |-> <<>>] :
            o \in { x \in RemoteOutcomes : x.kind = "reject" }
                  \cup { [kind |-> "data", messages |-> [given |-> FALSE]] } }
        \cup UNION { { [listing |-> [kind |-> "data", messages |-> [given |-> TRUE, list |-> l]],
                        fetches |-> f, order |-> p] :
                         f \in Fetches(Len(l)), p \in Orders(Len(l)) } :
                     l \in Lists }

CallSearchMessages(query, in) ==
    /\ gmailService.state = "built"
    /\ FacadeReturn("searchMessages", [query |-> query, order |-> in.order],
                    searchMessagesRequests(query, in.listing, in.fetches),
                    searchMessages(query, in.listing, in.fetches, in.order))

NextFacade ==
    \/ \E in \in SearchMessagesInputs : CallSearchMessages("is:unread", in)
    \/ \E message \in Messages : CallExtractTextFromMessage(message)
    \/ \E args \in DownloadFileArgs, o1 \in MetadataOutcomes, o2 \in RemoteOutcomes :
          CallDownloadFile(args, o1, o2)
    \/ \E args \in ListFilesArgs, o \in RemoteOutcomes : CallListFiles(args, o)
    \/ \E args \in SearchArgs, o \in RemoteOutcomes : CallSearch(args, o)
    \/ \E args \in DeleteFileArgs, o \in RemoteOutcomes : CallDeleteFile(args, o)
    \/ \E to \in Addresses, subject \in Subjects, body \in Bodies, from \in Senders,
          o \in RemoteOutcomes : CallSendMessage(to, subject, body, from, o)

SpecFacade == InitFacade /\ [][NextFacade]_vars

----------------------------------------------------------------------------
(* google-drive.ts:284-309  moveFile, one await at a time, against a Drive *)
(* that keeps the parents of the file; two calls may be in progress.       *)

\* a moveFile that never reads the parents
moveFileReadsNever(args) == FALSE

\* if (!removeParents): the parents are read when no list is given, or an empty one
moveFileReads(args) ==
    ~(args.removeFromParents.given /\ Len(args.removeFromParents.ids) > 0)

\* files.update with addParents and removeParents, as the Drive applies it to the
\* parents of a file
UpdateParents(parents, addParents, removeParents) ==
    LET kept == SelectSeq(parents, LAMBDA p :
                    \A k \in 1..Len(removeParents.ids) : removeParents.ids[k] # p)
    IN  IF \E k \in 1..Len(kept) : kept[k] = addParents THEN kept
        ELSE Append(kept, addParents)

MoveFileArgs ==
    { [given |-> FALSE] } \cup
    { [given |-> TRUE, fileId |-> "1a2b", newParentId |-> n, removeFromParents |-> r] :
        n \in {"A", "B", "P"}, r \in {NoList, List(<<>>), List(<<"P">>)} }

\* a step of call i of moveFile, which takes it to m; the Drive's parents become ps
MoveFileStep(i, m, ps) ==
    /\ pc = "caller"
    /\ driveService.state = "built"
    /\ remoteDrive' = [parents |-> ps, moves |-> [remoteDrive.moves EXCEPT ![i] = m]]
    /\ UNCHANGED <<config, procVars, facadeVars, tokenVars, exchanged, now, stderr,
                   routerVars, returned>>

\* the call, up to its first await
CallMoveFile(i, args) ==
    /\ remoteDrive.moves[i].pc = "idle"
    /\ MoveFileStep(i,
          IF ~args.given
          THEN [NoMove EXCEPT !.pc = "done", !.threw = TRUE, !.error = TypeErrorNoArgs]
          ELSE IF moveFileReads(args)
          THEN [NoMove EXCEPT !.pc = "reading", !.args = args]
          ELSE [NoMove EXCEPT !.pc = "updating", !.args = args,
                              !.removeParents = args.removeFromParents],
          remoteDrive.parents)

\* files.get(fields: "parents") answers: removeParents = file.data.parents?.join(",")
MoveFileRead(i, o) ==
    LET m == remoteDrive.moves[i]
        request == [api |-> "drive.files.get", fileId |-> m.args.fileId, fields |-> "parents",
                    answer |-> IF o.kind = "data"
                               THEN [kind |-> "data", parents |-> remoteDrive.parents]
                               ELSE o]
    IN  /\ m.pc = "reading"
        /\ MoveFileStep(i,
              IF o.kind = "data"
              THEN [m EXCEPT !.pc = "updating", !.requests = Append(@, request),
                             !.removeParents = IF Len(remoteDrive.parents) = 0 THEN NoList
                                               ELSE List(remoteDrive.parents)]
              ELSE [m EXCEPT !.pc = "done", !.requests = Append(@, request), !.threw = TRUE,
                             !.error = DriveSettled("moveFile", <<>>, o).error],
              remoteDrive.parents)

\* files.update answers: the Drive has applied it, or rejected it
MoveFileUpdate(i, o) ==
    LET m == remoteDrive.moves[i]
        request == [api |-> "drive.files.update", fileId |-> m.args.fileId,
                    addParents |-> m.args.newParentId, removeParents |-> m.removeParents,
                    fields |-> "id, name, parents", answer |-> o]
        ps == UpdateParents(remoteDrive.parents, m.args.newParentId, m.removeParents)
    IN  /\ m.pc = "updating"
        /\ IF o.kind = "data"
           THEN MoveFileStep(i, [m EXCEPT !.pc = "done", !.requests = Append(@, request),
                                          !.value = ps], ps)
           ELSE MoveFileStep(i, [m EXCEPT !.pc = "done", !.requests = Append(@, request),
                                          !.threw = TRUE,
                                          !.error = DriveSettled("moveFile", <<>>, o).error],
                             remoteDrive.parents)

\* the file is in no folder, in one or in two; no moveFile call has been made
InitMove ==
    /\ FacadesBuilt
    /\ remoteDrive \in { [NoDrive EXCEPT !.parents = ps] : ps \in {<<>>, <<"P">>, <<"P", "Q">>} }

NextMove ==
    \/ \E i \in Movers, args \in MoveFileArgs : CallMoveFile(i, args)
    \/ \E i \in Movers, o \in RemoteOutcomes : MoveFileRead(i, o)
    \/ \E i \in Movers, o \in RemoteOutcomes : MoveFileUpdate(i, o)

SpecMove == InitMove /\ [][NextMove]_vars

----------------------------------------------------------------------------
(* Properties of GmailService.refreshToken() (SpecService).                *)

----------------------------------------------------------------------------
(* Properties of the call-tool handler (Spec).                             *)

PendingIds == {p.id : p \in pending}

\* C2: the call-tool handler never throws.  For every tool call it returns exactly
\* one result, always one text content item: the pretty-printed JSON of the value
\* and no error flag when the case of the switch returned, "Error: <message>" and
\* isError = TRUE when it threw.  An error result leaves the process running and
\* the handler in place for the later requests.
C2_HandlerEnvelope ==
    /\ Len(stdout) <= 1
    /\ \A i \in 1..Len(stdout) :
         /\ ~stdout[i].threw
         /\ Len(stdout[i].result.content) = 1
         /\ stdout[i].result.content[1].type = "text"
         /\ IF settled.threw
            THEN /\ stdout[i].result.isError
                 /\ stdout[i].result.content[1].text = "Error: " \o ErrorText(settled.error)
            ELSE /\ ~stdout[i].result.isError
                 /\ stdout[i].result.content[1].text = Stringify(settled.value)
         /\ answers[stdout[i].id][Len(answers[stdout[i].id])] = stdout[i].result.isError
    /\ \A id \in 1..MaxRequests :
         /\ Len(answers[id]) <= 1
         /\ (id <= received /\ id \notin PendingIds) => Len(answers[id]) = 1
         /\ (id > received \/ id \in PendingIds) => Len(answers[id]) = 0
    /\ (\E id \in 1..MaxRequests : answers[id] = <<TRUE>>) => exitCode # 1
    /\ (received > 0 /\ exitCode = NoExit) => pc = "running"

\* a request is received and served with a value after an earlier one got an error
C2_Witness ==
    /\ answers[1] = <<TRUE>>
    /\ called.id = 2
    /\ Len(stdout) = 1
    /\ ~stdout[1].result.isError
    /\ pc = "running"

\* C3: a tool name that is not registered invokes no facade method (none is called,
\* none is left pending, no token exchange is started for it) and is answered with
\* an error payload whose message names the unknown tool.
C3_UnknownTool ==
    (called.id > 0 /\ called.name \notin Tools) =>
        /\ invoked = NoMethod
        /\ called.id \notin PendingIds
        /\ \A x \in exchanges : x.req # called.id
        /\ Len(stdout) = 1
        /\ stdout[1].id = called.id
        /\ stdout[1].result = [content |-> TextContent("Error: Unknown tool: " \o called.name),
                               isError |-> TRUE]

\* a call of an unregistered name has been answered
C3_Witness ==
    /\ called.name = "gdrive_rename_file"
    /\ invoked = NoMethod
    /\ Len(stdout) = 1
    /\ stdout[1].result.isError

----------------------------------------------------------------------------
(* Properties of startup (Spec).                                           *)

\* C4: whenever at least one credential variant is fully present, startup does not
\* fail: the process never ends with code 1.
C4_OneVariantSuffices ==
    (HasOAuth(config) \/ HasServiceAccount(config)) => ~(pc = "exited" /\ exitCode = 1)

\* C5: constructing GmailService throws exactly when the client id or the client
\* secret is absent, constructing GoogleDriveService exactly when the
\* service-account email or the private key is absent; a construction that threw
\* leaves no API client, no maintenance timer and no token exchange behind.
C5_ConstructionThrowsIff ==
    /\ driveService.state # "none" =>
         /\ driveService.state = "threw" <=>
                (~Truthy(config.googleServiceAccountEmail) \/ ~Truthy(config.googlePrivateKey))
         /\ driveService.state = "threw" => (~driveService.drive /\ ~driveService.auth)
         /\ driveService.state = "built" => driveService.drive
    /\ gmailService.state # "none" =>
         /\ gmailService.state = "threw" <=>
                (~Truthy(config.googleClientId) \/ ~Truthy(config.googleClientSecret))
         /\ gmailService.state = "threw" =>
                /\ ~gmailService.gmail
                /\ ~gmailService.auth
                /\ tokenRefreshInterval = Null
                /\ timers = {}
                /\ exchanges = {}
         /\ gmailService.state = "built" => gmailService.gmail

\* the GmailService constructor has thrown, the GoogleDriveService one has not
C5_Witness ==
    /\ gmailService.state = "threw"
    /\ driveService.state = "built"
    /\ Truthy(config.googleClientId)

\* C6: with neither credential variant fully present, startup ends with the
\* configuration error thrown by validateCredentials (exit code 1), with no facade
\* built, no timer started and the request loop never entered.
C6_NoCredentialsFailFirst ==
    (~HasOAuth(config) /\ ~HasServiceAccount(config) /\ pc # "driveService") =>
        /\ pc = "exited"
        /\ exitCode = 1
        /\ fatal = [message |-> MsgMissingCredentials, by |-> "validateCredentials"]
        /\ driveService = DriveObject("threw", FALSE)
        /\ gmailService = GmailObject("none", FALSE, FALSE)
        /\ tokenRefreshInterval = Null
        /\ timers = {}
        /\ exchanges = {}
        /\ received = 0

\* startup has failed for a configuration that holds one field of each variant
C6_Witness ==
    /\ Truthy(config.googleClientId)
    /\ ~Truthy(config.googleClientSecret)
    /\ Truthy(config.googlePrivateKey)
    /\ ~Truthy(config.googleServiceAccountEmail)
    /\ pc = "exited"
    /\ fatal.by = "validateCredentials"

----------------------------------------------------------------------------
(* Properties of the token maintenance.                                    *)

NoRefreshTokenWarning == LogLine("WARN", MsgNoRefreshGmail)

\* C7 (SpecService): with client id and secret but no refresh token, constructing
\* GmailService succeeds and logs a warning, starts no token exchange and no timer;
\* the timer is never started later, and getTokenStatus() reports maintenanceActive
\* FALSE in every state.
C7_NoRefreshTokenNoMaintenance ==
    (/\ Truthy(config.googleClientId)
     /\ Truthy(config.googleClientSecret)
     /\ ~Truthy(config.googleRefreshToken)
     /\ gmailService.state # "none") =>
        /\ gmailService = GmailObject("built", TRUE, TRUE)
        /\ tokenRefreshInterval = Null
        /\ timers = {}
        /\ exchanges = {}
        /\ exchanged = NoExchange
        /\ ~getTokenStatus(config, now, lastTokenRefresh, tokenRefreshInterval).maintenanceActive
        /\ returned.op = "getTokenStatus" => ~returned.value.maintenanceActive
        /\ returned.op = "new GmailService" =>
               /\ ~returned.threw
               /\ \E i \in 1..Len(stderr) : stderr[i] = NoRefreshTokenWarning

\* getTokenStatus() has answered, later than the construction, without a refresh token
C7_Witness ==
    /\ Truthy(config.googleClientId)
    /\ Truthy(config.googleClientSecret)
    /\ config.googleRefreshToken = ""
    /\ returned.op = "getTokenStatus"
    /\ now > 0

\* the step is the answer of a maintenance exchange (initial or tick) that failed
MaintenanceFailedStep ==
    /\ exchanged'.caller \in {"initial", "tick"}
    /\ exchanged'.kind # "token"

\* the step is the interval firing
TickStep == timers # {} /\ timers' # {} /\ timers' # timers

\* C8 (Spec): a maintenance exchange that fails, on a tick or at the initial
\* validation, is logged as an error and goes no further: the process keeps
\* running, no other exchange is started for it, the interval stays registered
\* with its due time.  Whatever failed before, the interval firing starts an
\* exchange.
C8_MaintenanceStep ==
    /\ MaintenanceFailedStep =>
         /\ pc' = pc
         /\ exitCode' = NoExit
         /\ fatal' = NoFatal
         /\ exchanges' \subseteq exchanges
         /\ timers' = timers
         /\ timers' # {}
         /\ tokenRefreshInterval' = tokenRefreshInterval
         /\ tokenRefreshInterval' # Null
         /\ Len(stderr') > 0
         /\ stderr'[Len(stderr')][1] = "ERROR"
    /\ TickStep =>
         /\ \E x \in exchanges' \ exchanges : x.caller = "tick"
         /\ tokenRefreshInterval' = tokenRefreshInterval

C8_FailedMaintenanceHarmless == [][C8_MaintenanceStep]_vars

\* the exchange of the second tick has failed, none is left in flight and none has
\* succeeded since the clock started (two ticks failed in a row); the process runs
\* with the interval registered
C8_Witness ==
    /\ exchanged = [caller |-> "tick", req |-> 0, key |-> 2 * TickPeriod, kind |-> "reject"]
    /\ exchanges = {}
    /\ lastTokenRefresh = 0
    /\ pc = "running"
    /\ timers # {}

\* the step is a call of destroy()
DestroyStep == returned'.op = "destroy"

\* C9 (SpecService): destroy() never throws.  Called while the interval is set it
\* clears the interval, resets the field and logs one line; called again, or on a
\* service whose timer was never started, it changes nothing and logs nothing.
C9_DestroyStep ==
    DestroyStep =>
        /\ ~returned'.threw
        /\ UNCHANGED <<config, procVars, facadeVars, lastTokenRefresh, exchanges, now>>
        /\ IF tokenRefreshInterval # Null
           THEN /\ tokenRefreshInterval' = Null
                /\ timers' = {}
                /\ stderr' = <<LogLine("GMAIL", MsgMaintenanceStopped)>>
           ELSE /\ tokenRefreshInterval' = Null
                /\ timers' = timers
                /\ timers' = {}
                /\ stderr' = <<>>

C9_DestroyIdempotent == [][C9_DestroyStep]_vars

\* destroy() has returned without a log line on a service whose timer had been
\* started: a second call
C9_Witness ==
    /\ returned.op = "destroy"
    /\ stderr = <<>>
    /\ Truthy(config.googleRefreshToken)
    /\ gmailService.state = "built"
    /\ tokenRefreshInterval = Null

\* C10 (Spec): when the process has exited on the termination signal (code 0), the
\* token maintenance interval has been canceled: none is registered and the field
\* is reset.
C10_TimerCanceledOnSignal ==
    (pc = "exited" /\ exitCode = 0) => (timers = {} /\ tokenRefreshInterval = Null)

----------------------------------------------------------------------------
(* Properties of validateAndRefreshToken (SpecService).                    *)

\* the step is the answer of an exchange: the second half of validateAndRefreshToken
LeaseAnsweredStep == exchanged' # NoExchange

\* C11: validateAndRefreshToken sets lastTokenRefresh to the current time exactly
\* when the exchange returned a token, and changes nothing else of the service:
\* when the exchange rejects or resolves without a token the call fails (the manual
\* caller gets success FALSE, the maintenance callers log an error) and
\* lastTokenRefresh and the interval handle are as before the call.
C11_LeaseStep ==
    LeaseAnsweredStep =>
        /\ lastTokenRefresh' = IF exchanged'.kind = "token" THEN now ELSE lastTokenRefresh
        /\ UNCHANGED <<tokenRefreshInterval, timers, facadeVars, config, now, procVars>>
        /\ exchanges' \subseteq exchanges
        /\ exchanged'.kind # "token" =>
             /\ lastTokenRefresh' = lastTokenRefresh
             /\ Len(stderr') > 0
             /\ stderr'[1][1] = "ERROR"
             /\ returned'.op = "refreshToken" => ~returned'.value.success
        /\ exchanged'.kind = "token" =>
             /\ stderr'[1] = LogLine("GMAIL", MsgValidated \o " " \o toISOString(now))
             /\ returned'.op = "refreshToken" => returned'.value.success

C11_LeaseFrame == [][C11_LeaseStep]_vars

\* an exchange has failed later than a successful one: the timestamp is still the
\* time of the success, the interval is still set
C11_Witness ==
    /\ exchanged.kind = "empty"
    /\ lastTokenRefresh > 0
    /\ now > lastTokenRefresh
    /\ tokenRefreshInterval # Null

\* C12 (Spec): without a refresh token validateAndRefreshToken throws the
\* missing-refresh-token error before any exchange, on every path: no exchange is
\* ever in flight or answered (construction, interval, manual refresh), and the
\* manual refresh tool answers with success FALSE and that error's message.
C12_NoRefreshTokenNoExchange ==
    ~Truthy(config.googleRefreshToken) =>
        /\ validateAndRefreshTokenBegin(config).threw
        /\ validateAndRefreshTokenBegin(config).error = ErrorOf(MsgNoRefreshForValidation)
        /\ exchanges = {}
        /\ exchanged = NoExchange
        /\ called.name = "gmail_refresh_token" =>
             /\ invoked = "refreshToken"
             /\ called.id \notin PendingIds
             /\ Len(stdout) = 1
             /\ settled = Returns(RefreshValue([success |-> FALSE,
                                                lastRefresh |-> lastTokenRefresh,
                                                message |-> MsgNoRefreshForValidation]))
             /\ stdout[1].result = SuccessResult(settled.value)

\* the manual refresh tool has been called and answered without a refresh token
C12_Witness ==
    /\ config.googleRefreshToken = Undefined
    /\ called.name = "gmail_refresh_token"
    /\ Len(stdout) = 1
    /\ pc = "running"

----------------------------------------------------------------------------
(* Frame of the token state (Spec).                                        *)

\* the step is `new GmailService()`
ConstructionStep == gmailService' # gmailService

\* the step receives a call of a registered tool other than the manual refresh
OperationCallStep == called'.id > 0 /\ called'.name \in Tools \ {"gmail_refresh_token"}

\* the step is the answer to a tool call whose facade method has settled
OperationSettledStep == Len(stdout') = 1 /\ called' = NoCall /\ exchanged' = NoExchange

\* C13: lastTokenRefresh changes only in a step where an exchange answered with a
\* token, the interval handle only at construction and in destroy().  A status
\* query, a mail operation or a file operation, when called and when it settles,
\* starts no exchange and leaves lastTokenRefresh, the handle and the registered
\* timer as they were.
C13_TokenStateStep ==
    /\ lastTokenRefresh' # lastTokenRefresh =>
           (ConstructionStep \/ (exchanged'.kind = "token" /\ lastTokenRefresh' = now))
    /\ tokenRefreshInterval' # tokenRefreshInterval =>
           (ConstructionStep \/ returned'.op = "destroy")
    /\ (OperationCallStep \/ OperationSettledStep) =>
           /\ exchanges' = exchanges
           /\ exchanged' = NoExchange
           /\ UNCHANGED <<lastTokenRefresh, tokenRefreshInterval, timers>>
    /\ OperationCallStep =>
           /\ invoked' # "refreshToken"
           /\ called'.name = "gmail_check_token_status" =>
                  /\ invoked' = "getTokenStatus"
                  /\ settled' = Returns(StatusValue(
                         getTokenStatus(config, now, lastTokenRefresh, tokenRefreshInterval)))

C13_TokenStateFrame == [][C13_TokenStateStep]_vars

\* a Gmail operation has failed and been answered while the interval is set, an
\* exchange is in flight and the last successful exchange dates from the first tick
C13_Witness ==
    /\ Len(stdout) = 1
    /\ called = NoCall
    /\ exchanged = NoExchange
    /\ settled.threw
    /\ exchanges # {}
    /\ lastTokenRefresh = TickPeriod
    /\ tokenRefreshInterval # Null

----------------------------------------------------------------------------
(* Properties of getTokenStatus().minutesSinceRefresh (SpecService).       *)

MinutesSinceRefresh ==
    getTokenStatus(config, now, lastTokenRefresh, tokenRefreshInterval).minutesSinceRefresh

\* C14: right after an exchange that returned a token, minutesSinceRefresh is 0;
\* in every other step it does not decrease (time advancing, failed exchanges,
\* calls of the other methods); it goes down, to 0, only when an exchange returns
\* a token.
C14_MinutesStep ==
    /\ exchanged'.kind = "token" => MinutesSinceRefresh' = 0
    /\ exchanged'.kind # "token" => MinutesSinceRefresh' >= MinutesSinceRefresh
    /\ MinutesSinceRefresh' < MinutesSinceRefresh =>
           (exchanged'.kind = "token" /\ MinutesSinceRefresh' = 0)
    /\ returned'.op = "getTokenStatus" =>
           returned'.value.minutesSinceRefresh = MinutesSinceRefresh

C14_MinutesMonotone == [][C14_MinutesStep]_vars

\* an exchange has failed half an hour after the last successful one: the minutes
\* have kept growing
C14_Witness ==
    /\ exchanged.kind = "reject"
    /\ lastTokenRefresh > 0
    /\ MinutesSinceRefresh >= 29

----------------------------------------------------------------------------
(* Properties of the facades' methods (SpecFacade).                        *)

\* C15: sendMessage called without `from` sends a raw message whose base64-decoded
\* content is exactly 'To: <to>', 'Subject: <subject>', an empty line, then the
\* body: no 'From:' line and no other line, in particular no empty line between
\* the To and the Subject headers.
C15_RawWithoutFrom ==
    (returned.op = "sendMessage" /\ ~returned.value.args.from.given) =>
        /\ Len(returned.value.requests) = 1
        /\ Base64Decode(returned.value.requests[1].raw) =
               HdrTo \o returned.value.args.to \o <<NL>>
               \o HdrSubject \o returned.value.args.subject \o <<NL>>
               \o <<NL>>
               \o returned.value.args.body

\* C16: deleteFile sends the permanent delete only when `permanent` is given as
\* true, and then nothing else; with the flag left out or false it sends exactly
\* one update that sets trashed, and no delete.
C16_DeleteOnlyWhenPermanent ==
    returned.op = "deleteFile" =>
        LET args == returned.value.args
            reqs == returned.value.requests
        IN  /\ (\E i \in 1..Len(reqs) : reqs[i].api = "drive.files.delete") =>
                   (args.given /\ args.permanent = Flag(TRUE))
            /\ (args.given /\ args.permanent = Flag(TRUE)) =>
                   reqs = <<[api |-> "drive.files.delete", fileId |-> args.fileId]>>
            /\ (args.given /\ args.permanent \in {NoFlag, Flag(FALSE)}) =>
                   /\ reqs = <<[api |-> "drive.files.update", fileId |-> args.fileId,
                                resource |-> [trashed |-> TRUE]]>>
                   /\ ~returned.threw =>
                          returned.value.result =
                              << <<"success", JBool(TRUE)>>,
                                 <<"message", JStr("File moved to trash")>> >>

\* deleteFile has returned for a call that leaves the flag out
C16_Witness ==
    /\ returned.op = "deleteFile"
    /\ returned.value.args.given
    /\ returned.value.args.permanent = NoFlag
    /\ ~returned.threw
    /\ Len(returned.value.requests) = 1

\* the clauses joined with " and "
RECURSIVE JoinAnd(_)
JoinAnd(clauses) ==
    IF Len(clauses) = 1 THEN clauses[1]
    ELSE clauses[1] \o " and " \o JoinAnd(Tail(clauses))

\* a string parameter counts as supplied when it is given and not empty
Supplied(v) == v # Undefined /\ v # ""

ClauseIf(cond, clause) == IF cond THEN <<clause>> ELSE <<>>

NameOrText(q) == "(name contains '" \o q \o "' or fullText contains '" \o q \o "')"

\* the clauses expected of listFiles and of search for the arguments a
ListFilesClauses(a) ==
    <<"trashed=false">>
    \o ClauseIf(Supplied(a.folderId), "'" \o a.folderId \o "' in parents")
    \o ClauseIf(Supplied(a.query), NameOrText(a.query))
    \o ClauseIf(a.includeShared = Flag(FALSE), "'me' in owners")

SearchClauses(a) ==
    <<"trashed=false">>
    \o ClauseIf(Supplied(a.query), NameOrText(a.query))
    \o ClauseIf(Supplied(a.mimeType), "mimeType='" \o a.mimeType \o "'")
    \o ClauseIf(Supplied(a.modifiedTime), "modifiedTime > '" \o a.modifiedTime \o "'")
    \o ClauseIf(Supplied(a.owner), "'" \o a.owner \o "' in owners")

ExpectedExportFormat(m) ==
    IF m.rest = "document" THEN
        "application/vnd.openxmlformats-officedocument.wordprocessingml.document"
    ELSE IF m.rest = "spreadsheet" THEN
        "application/vnd.openxmlformats-officedocument.spreadsheetml.sheet"
    ELSE IF m.rest = "presentation" THEN
        "application/vnd.openxmlformats-officedocument.presentationml.presentation"
    ELSE IF m.rest = "drawing" THEN "image/png"
    ELSE IF m.rest = "script" THEN "application/vnd.google-apps.script+json"
    ELSE "application/pdf"

\* C18: downloadFile first reads the file's name and type; when that read is
\* answered it sends exactly one content request: an export exactly when the type
\* starts with the workspace prefix, otherwise a direct fetch (alt=media) that
\* carries no format.  The export asks for the format given, or else for the
\* default of the source type, PDF for a workspace type without one.
C18_DownloadBranches ==
    (returned.op = "downloadFile" /\ returned.value.args.given) =>
        LET args == returned.value.args
            reqs == returned.value.requests
        IN  /\ Len(reqs) >= 1
            /\ reqs[1].api = "drive.files.get"
            /\ reqs[1].fields = "mimeType, name"
            /\ reqs[1].fileId = args.fileId
            /\ reqs[1].answer.kind # "data" => (Len(reqs) = 1 /\ returned.threw)
            /\ reqs[1].answer.kind = "data" =>
                 LET m == reqs[1].answer.mimeType
                 IN  /\ Len(reqs) = 2
                     /\ reqs[2].fileId = args.fileId
                     /\ reqs[2].api = "drive.files.export" <=> m.head = WorkspacePrefix
                     /\ reqs[2].api \in {"drive.files.export", "drive.files.get"}
                     /\ reqs[2].api = "drive.files.get" =>
                            /\ reqs[2].alt = "media"
                            /\ DOMAIN reqs[2] = {"api", "fileId", "alt", "answer"}
                     /\ reqs[2].api = "drive.files.export" =>
                            reqs[2].mimeType = IF Supplied(args.format) THEN args.format
                                               ELSE ExpectedExportFormat(m)
                     /\ returned.threw <=> reqs[2].answer.kind # "data"

\* a workspace type without a default format has been exported, no format given
C18_Witness ==
    /\ returned.op = "downloadFile"
    /\ returned.value.args.given
    /\ returned.value.args.format = Undefined
    /\ Len(returned.value.requests) = 2
    /\ returned.value.requests[1].answer.mimeType = Mime(WorkspacePrefix, "form")
    /\ returned.value.requests[2].api = "drive.files.export"
    /\ returned.value.requests[2].mimeType = "application/pdf"
    /\ ~returned.threw

\* a body, or a part's body, that carries data
HasData(b) == b.given /\ b.data.given /\ Len(b.data.text) > 0

\* the positions of the plain-text parts that carry data
PlainParts(parts) ==
    { i \in 1..Len(parts) : parts[i].mimeType = "text/plain" /\ HasData(parts[i].body) }

\* C19: extractTextFromMessage never throws; it returns the text whose base64
\* encoding is the payload body's data when the body carries data; otherwise the
\* text of the first plain-text part that carries data; otherwise the empty
\* string, in particular when there is no payload, or when every part is HTML.
C19_ExtractText ==
    returned.op = "extractTextFromMessage" =>
        LET message == returned.value.args
            text == returned.value.result
            payload == message.payload
        IN  /\ ~returned.threw
            /\ ~payload.given => text = <<>>
            /\ (payload.given /\ HasData(payload.body)) =>
                   Base64Encode(text) = payload.body.data.text
            /\ (payload.given /\ ~HasData(payload.body) /\ ~payload.parts.given) =>
                   text = <<>>
            /\ (payload.given /\ ~HasData(payload.body) /\ payload.parts.given) =>
                   LET parts == payload.parts.list
                   IN  /\ PlainParts(parts) = {} => text = <<>>
                       /\ (\A i \in 1..Len(parts) : parts[i].mimeType = "text/html")
                              => text = <<>>
                       /\ \A i \in PlainParts(parts) :
                              (\A j \in PlainParts(parts) : i <= j) =>
                                  Base64Encode(text) = parts[i].body.data.text

\* a message without body data whose third part is the first plain-text part with
\* data, after two HTML parts, has given that part's text ("text")
C19_Witness ==
    /\ returned.op = "extractTextFromMessage"
    /\ returned.value.args.payload.given
    /\ ~returned.value.args.payload.body.given
    /\ ~returned.value.args.payload.headers.given
    /\ returned.value.args.payload.parts.given
    /\ Len(returned.value.args.payload.parts.list) = 3
    /\ PlainParts(returned.value.args.payload.parts.list) = {3}
    /\ returned.value.result = <<116, 101, 120, 116>>

\* the names under which a failure of an operation may be reported
FailureLabels(op) ==
    IF op \in {"listFiles", "search", "deleteFile", "downloadFile"}
    THEN {DriveFailure(op)}
    ELSE {op, "Failed to send message", "Error sending message"}

\* C20: whenever a method of either facade has sent a request and thrown, the
\* error it throws is an Error whose message names the failed operation and
\* carries the message of the underlying rejection.
C20_FailureNamesOperation ==
    (returned.op # "none" /\ returned.threw /\ Len(returned.value.requests) >= 1) =>
        \E e \in RemoteErrors, label \in FailureLabels(returned.op) :
            returned.value.result = ErrorOf(label \o ": " \o ErrorText(e))

\* the same for the methods of the file facade alone, where it holds
DriveFailureNamesOperation ==
    returned.op \in {"listFiles", "search", "deleteFile", "downloadFile"} =>
        C20_FailureNamesOperation


----------------------------------------------------------------------------
(* Properties of the two output streams (Spec).                            *)

\* C21: in every reachable state everything on stdout is a protocol message (a
\* result of the call-tool handler): no log line of any level, whether of the
\* credential validation, the token maintenance or the request handling, is on
\* stdout; the log lines are on stderr.
C21_StdoutProtocolOnly ==
    /\ \A i \in 1..Len(stdout) : DOMAIN stdout[i] = {"id", "threw", "result"}
    /\ \A i \in 1..Len(stderr) :
         stderr[i][1] \in {"INFO", "WARN", "ERROR", "DEBUG", "CONFIG", "GMAIL", "DRIVE"}

\* a mail operation has failed: the handler logged an ERROR line and answered
C21_Witness ==
    /\ Len(stdout) = 1
    /\ stdout[1].result.isError
    /\ Len(stderr) = 1
    /\ stderr[1][1] = "ERROR"
    /\ pc = "running"


----------------------------------------------------------------------------
(* Properties of moveFile (SpecMove).                                      *)

\* the call names the parents to remove itself
ExplicitRemoval(args) == args.removeFromParents.given /\ Len(args.removeFromParents.ids) > 0

\* the folder ids of a list
Ids(seq) == { seq[k] : k \in 1..Len(seq) }

\* the step in which the update of call i is applied
C25_MoveStep(i) ==
    (/\ remoteDrive.moves[i].pc = "updating"
     /\ remoteDrive'.moves[i].pc = "done"
     /\ ~remoteDrive'.moves[i].threw) =>
        LET args == remoteDrive'.moves[i].args
            reqs == remoteDrive'.moves[i].requests
            update == reqs[Len(reqs)]
        IN  /\ update.api = "drive.files.update"
            /\ update.fileId = args.fileId
            /\ update.addParents = args.newParentId
            /\ IF ExplicitRemoval(args)
               THEN /\ Len(reqs) = 1
                    /\ update.removeParents = args.removeFromParents
                    /\ Ids(remoteDrive'.parents) =
                           (Ids(remoteDrive.parents) \ Ids(args.removeFromParents.ids))
                               \cup {args.newParentId}
               ELSE /\ Len(reqs) = 2
                    /\ reqs[1].api = "drive.files.get"
                    /\ reqs[1].fileId = args.fileId
                    /\ reqs[1].fields = "parents"
                    /\ reqs[1].answer.kind = "data"
                    /\ update.removeParents.ids = reqs[1].answer.parents
                    /\ reqs[1].answer.parents = remoteDrive.parents =>
                           remoteDrive'.parents = <<args.newParentId>>

\* C25: a moveFile without a removal list reads the file's parents first, then
\* sends one update that removes all the parents it read and adds the new one;
\* when the parents are still those it read, the file is afterwards in the new
\* folder only.  With a removal list it sends the update alone, no read, and the
\* listed parents and no other are removed.
C25_MoveFileReadsThenReplaces == [][\A i \in Movers : C25_MoveStep(i)]_vars

\* a file in two folders has been moved by one call without a removal list
C25_Witness ==
    /\ remoteDrive.moves[1].pc = "done"
    /\ ~remoteDrive.moves[1].threw
    /\ remoteDrive.moves[2].pc = "idle"
    /\ remoteDrive.moves[1].args.given
    /\ ~remoteDrive.moves[1].args.removeFromParents.given
    /\ Len(remoteDrive.moves[1].requests) = 2
    /\ remoteDrive.moves[1].requests[1].answer.parents = <<"P", "Q">>
    /\ remoteDrive.parents = <<"A">>

\* C29: once two moveFile calls without a removal list have both completed (both
\* updates applied), whatever the order of their reads and updates, the file has
\* exactly one parent.
C29_ConcurrentMovesOneParent ==
    (\A i \in Movers :
        /\ remoteDrive.moves[i].pc = "done"
        /\ ~remoteDrive.moves[i].threw
        /\ ~ExplicitRemoval(remoteDrive.moves[i].args)) =>
        Len(remoteDrive.parents) = 1


----------------------------------------------------------------------------
(* More properties of extractTextFromMessage (SpecFacade).                 *)

\* a message whose only content is HTML: an HTML payload that carries its body
\* itself, or a multipart payload whose parts are all HTML
HtmlOnly(message) ==
    /\ message.payload.given
    /\ \/ /\ message.payload.mimeType = "text/html"
          /\ ~message.payload.parts.given
          /\ HasData(message.payload.body)
       \/ /\ message.payload.parts.given
          /\ ~HasData(message.payload.body)
          /\ Len(message.payload.parts.list) > 0
          /\ \A i \in 1..Len(message.payload.parts.list) :
                 message.payload.parts.list[i].mimeType = "text/html"

\* C26: for a message whose only content is HTML, carried as the payload's own
\* body or as parts, extractTextFromMessage returns the empty string.
C26_HtmlNeverExtracted ==
    (returned.op = "extractTextFromMessage" /\ HtmlOnly(returned.value.args)) =>
        returned.value.result = <<>>

\* the same for the messages whose HTML is carried as parts, where it holds
HtmlPartsNeverExtracted ==
    (/\ returned.op = "extractTextFromMessage"
     /\ HtmlOnly(returned.value.args)
     /\ returned.value.args.payload.parts.given) =>
        returned.value.result = <<>>


----------------------------------------------------------------------------
(* Properties of searchMessages (SpecFacade).                              *)

\* the record expected for a listed message: the fields of the full message the
\* Gmail API holds for it ("S1", "a@b", "c@d", "2024", "hi"; "S2", "text")
ExpectedRecord(id) ==
    [id |-> id, threadId |-> "t-" \o id, snippet |-> "snippet of " \o id,
     subject |-> IF id = "m1" THEN <<83, 49>> ELSE IF id = "m2" THEN <<83, 50>> ELSE <<>>,
     from |-> IF id = "m1" THEN <<97, 64, 98>> ELSE <<>>,
     to |-> IF id = "m1" THEN <<99, 64, 100>> ELSE <<>>,
     date |-> IF id = "m1" THEN <<50, 48, 50, 52>> ELSE <<>>,
     body |-> IF id = "m1" THEN <<104, 105>>
              ELSE IF id = "m2" THEN <<116, 101, 120, 116>> ELSE <<>>]

\* C30: searchMessages returns the empty list when the listing has no messages;
\* otherwise, when every fetch is answered, one record (id, threadId, snippet,
\* subject, from, to, date, body) per listed message in the order of the listing,
\* whatever the order in which the fetches settle; when a fetch (or the listing)
\* is rejected it throws and returns nothing.
C30_SearchMessagesProjection ==
    returned.op = "searchMessages" =>
        LET reqs == returned.value.requests
            listing == reqs[1].answer
            result == returned.value.result
        IN  /\ listing.kind # "data" => (returned.threw /\ Len(reqs) = 1)
            /\ (listing.kind = "data" /\ ~listing.messages.given) =>
                   (~returned.threw /\ result = <<>> /\ Len(reqs) = 1)
            /\ (listing.kind = "data" /\ listing.messages.given) =>
                   LET ids == listing.messages.list
                   IN  /\ Len(reqs) = 1 + Len(ids)
                       /\ \A k \in 1..Len(ids) : reqs[k + 1].id = ids[k]
                       /\ returned.threw <=>
                              \E k \in 1..Len(ids) : reqs[k + 1].answer.kind # "data"
                       /\ ~returned.threw =>
                              /\ Len(result) = Len(ids)
                              /\ \A k \in 1..Len(ids) : result[k] = ExpectedRecord(ids[k])

\* three messages were listed and their fetches settled last to first; the
\* records are in the order of the listing
C30_Witness ==
    /\ returned.op = "searchMessages"
    /\ ~returned.threw
    /\ returned.value.args.order = <<3, 2, 1>>
    /\ Len(returned.value.result) = 3
    /\ returned.value.result[1].id = "m1"
    /\ returned.value.result[2].subject = <<83, 50>>
    /\ returned.value.result[3].id = "m3"


----------------------------------------------------------------------------
(* Properties of all the facade methods (SpecFacade).                      *)

\* a request without the answer it got
RequestOf(r) == [f \in DOMAIN r \ {"answer"} |-> r[f]]

----------------------------------------------------------------------------
(* Properties of the construction of GmailService (SpecService).           *)

\* the step that constructs a GmailService, a refresh token being configured
ConstructedWithRefreshToken ==
    /\ gmailService.state = "none"
    /\ gmailService'.state = "built"
    /\ Truthy(config.googleRefreshToken)

C23_Step ==
    /\ ConstructedWithRefreshToken =>
           /\ tokenRefreshInterval' # Null
           /\ timers' = {[handle |-> tokenRefreshInterval', due |-> now + TickPeriod]}
           /\ exchanges' = {Exchange("initial", 0, 0)}
    /\ (\E x \in exchanges' \ exchanges : x.caller = "initial") => gmailService.state = "none"
    /\ exchanged'.caller = "initial" =>
           /\ pc' = pc
           /\ gmailService' = gmailService
           /\ tokenRefreshInterval' = tokenRefreshInterval
           /\ timers' = timers
           /\ \A x \in exchanges' : x.caller # "initial"

\* C23: with a refresh token configured the construction stores the interval,
\* first due one period later, and starts exactly one token exchange of its own at
\* once; no later step starts such an exchange again; when that exchange is
\* answered, with a token or a failure, the object stays constructed, the caller
\* goes on and the interval stays as it was.
C23_InitialExchangeOnce == [][C23_Step]_vars

\* the initial exchange has just failed; the object is built and the interval set
C23_Witness ==
    /\ exchanged.caller = "initial"
    /\ exchanged.kind = "reject"
    /\ gmailService.state = "built"
    /\ tokenRefreshInterval # Null
    /\ timers # {}
    /\ pc = "caller"


----------------------------------------------------------------------------
(* Properties of lastTokenRefresh under interleaving (SpecService).        *)

C24_Step ==
    /\ lastTokenRefresh' >= lastTokenRefresh
    /\ lastTokenRefresh' # lastTokenRefresh =>
           /\ lastTokenRefresh' = now'
           /\ \/ gmailService.state = "none" /\ gmailService'.state # "none"
              \/ exchanged'.kind = "token"
    /\ returned'.op = "getTokenStatus" =>
           /\ returned'.value.lastRefresh = lastTokenRefresh
           /\ lastTokenRefresh' = lastTokenRefresh

\* C24: in every step, whichever of the ticks, the initial validation, the manual
\* refreshes and the status queries it belongs to and whatever exchanges are in
\* flight, lastTokenRefresh does not decrease; it changes only to the current time,
\* at construction or when an exchange is answered with a token; and a status
\* query returns the stored value as it is and does not change it.
C24_TimestampMonotone == [][C24_Step]_vars

\* a status query made while an exchange is in flight, after a successful exchange
\* that was answered later than the construction
C24_Witness ==
    /\ returned.op = "getTokenStatus"
    /\ returned.value.lastRefresh > 0
    /\ returned.value.lastRefresh < now
    /\ exchanges # {}


----------------------------------------------------------------------------
(* Properties of getTokenStatus().maintenanceActive (SpecService).         *)

C27_Step ==
    /\ (gmailService.state = "none" /\ gmailService'.state = "built") =>
           (tokenRefreshInterval' # Null <=> Truthy(config.googleRefreshToken))
    /\ returned'.op = "destroy" => tokenRefreshInterval' = Null
    /\ (gmailService.state = "built" /\ returned'.op # "destroy") =>
           tokenRefreshInterval' = tokenRefreshInterval
    /\ returned'.op = "getTokenStatus" =>
           /\ returned'.value.maintenanceActive <=> tokenRefreshInterval # Null
           /\ returned'.value.maintenanceActive => Truthy(config.googleRefreshToken)

\* C27: the interval handle of a constructed GmailService is set at construction
\* exactly when a refresh token is configured, is reset by destroy() and is changed
\* by no other step (no answer of an exchange, no tick, no manual refresh, no
\* status query), so that it is never set again after destroy(); maintenanceActive
\* of a status query is whether the handle is set.
C27_MaintenanceActiveIff == [][C27_Step]_vars

\* a status query after destroy(), a refresh token being configured
C27_Witness ==
    /\ returned.op = "getTokenStatus"
    /\ returned.value.hasRefreshToken
    /\ ~returned.value.maintenanceActive
    /\ timers = {}


----------------------------------------------------------------------------
(* Properties of the service after destroy() (SpecService).                *)

\* destroy() has returned: the object is built and its interval handle is reset
Destroyed == gmailService.state = "built" /\ tokenRefreshInterval = Null

C28_Step ==
    Destroyed =>
        /\ \A x \in exchanges' \ exchanges : x.caller = "manual"
        /\ timers' = {}
        /\ (exchanged'.caller = "manual" /\ exchanged'.kind = "token") =>
               lastTokenRefresh' = now

\* C28: once destroy() has returned, no step starts an exchange for the interval
\* callback (or for the initial validation): the exchanges that start are those of
\* refreshToken(), and one that is answered with a token still sets
\* lastTokenRefresh to the time of the answer.
C28_NoTickAfterDestroy == [][C28_Step]_vars

\* after destroy(), with a refresh token configured, a manual refresh has been
\* answered with a token later than the construction
C28_Witness ==
    /\ Destroyed
    /\ Truthy(config.googleRefreshToken)
    /\ exchanged.caller = "manual"
    /\ exchanged.kind = "token"
    /\ lastTokenRefresh = now
    /\ now > 0
    /\ returned.op = "refreshToken"
    /\ returned.value.success

====
